---- MODULE Spec2Model ----
(***************************************************************************)
(* Model of agent-crm: the audit-logged mutation engine of scripts/crm.py  *)
(* and the backup / restore / prune manager of scripts/crm-backup.py.      *)
(*                                                                         *)
(* Values.  Every column value is a sequence, so that SQL NULL / Python    *)
(* None is the empty sequence for every type: a text is a sequence of      *)
(* characters, an instant is <<t>>, a stage is its spelled-out name.       *)
(***************************************************************************)
EXTENDS Integers, Sequences, FiniteSets, TLC

NULL == <<>>

\* ---------------------------------------------------------------- bounds
MaxOps  == 3      \* operations in one behaviour of the mutation engine
MaxRows == 2      \* rows per entity table
MaxTime == 2      \* instants the clock can show
MaxTxOps == 2     \* invocations in one behaviour of the statement-level model
MaxSec == 2       \* seconds the backup clock can show in the restore model
MaxBackups == 5   \* backup files a directory handed to prune can hold
MaxKeep == 2      \* largest --keep given to prune
MaxCallOps == 1   \* invocations in one behaviour of the call-by-call model
MaxCallRows == 3  \* rows per entity table in the call-by-call model
MaxRefDays == 7   \* consecutive days the clock can show to parse_date
MaxTod == 1       \* latest time of day the clock can show to parse_date
MaxDeals == 2     \* deals in the store the pipeline summary reads

\* ------------------------------------------------------- input alphabets
Lead      == <<"l", "e", "a", "d">>
Qualified == <<"q", "u", "a", "l">>
Won       == <<"w", "o", "n">>
Lost      == <<"l", "o", "s", "t">>

TerminalStages == {Won, Lost}
StageInputs    == {Qualified, Won, Lost}

NameInputs   == {<<"a">>, <<"A", "b">>}
IdentInputs  == {<<"1">>, <<"2">>, <<"a">>}
EmailInputs  == {<<"e">>}
NoteInputs   == {<<"n">>}
\* --contact of add-deal / log / add-task: absent, or a name fragment
ContactRefInputs == {NULL, <<"a">>}

Tables == {"contacts", "deals", "interactions", "tasks"}

VARIABLES
    db,        \* the committed content of the store (what any new connection reads)
    now,       \* the clock read by datetime.now()
    last,      \* the outcome the last operation printed
    nops,      \* operations run so far
    nmut,      \* operations so far that reported success
    work,      \* the store as the open connection sees it (its uncommitted writes included)
    pending,   \* the transaction the open connection is running
    pc,        \* where the running handler stands: idle, entity_written, audit_written
    live,      \* the file at DB_PATH: its content, or Absent
    bdir,      \* BACKUP_DIR: timestamp |-> content of crm_backup_<timestamp>.db, or Absent
    bnote,     \* BACKUP_DIR: timestamp |-> text of crm_backup_<timestamp>.db.note, or Absent
    ext,       \* a file outside BACKUP_DIR that restore can be pointed at
    sec,       \* the clock's second, as backup_database formats it into a file name
    rpc,       \* where a running restore_database stands
    rctx       \* the running restore's arguments and locals

crmVars == <<db, now, nops, nmut, work, pending, pc>>
fsVars  == <<live, bdir, bnote, ext, sec, rpc, rctx>>
vars    == <<db, now, last, nops, nmut, work, pending, pc,
             live, bdir, bnote, ext, sec, rpc, rctx>>

\* ---------------------------------------------------------- text helpers
LowerCh(c) ==
    CASE c = "A" -> "a"
      [] c = "B" -> "b"
      [] OTHER   -> c

Lower(s) == [i \in 1..Len(s) |-> LowerCh(s[i])]

\* SQLite's LIKE: % matches any run of characters, _ one character, letters
\* compare without case.
RECURSIVE Like(_, _)
Like(p, s) ==
    IF p = <<>> THEN s = <<>>
    ELSE IF Head(p) = "%"
         THEN Like(Tail(p), s) \/ (s # <<>> /\ Like(p, Tail(s)))
    ELSE IF s = <<>> THEN FALSE
    ELSE IF Head(p) = "_" THEN Like(Tail(p), Tail(s))
    ELSE LowerCh(Head(p)) = LowerCh(Head(s)) /\ Like(Tail(p), Tail(s))

\* f'%{ident.lower()}%'
Pattern(ident) == <<"%">> \o Lower(ident) \o <<"%">>

\* ------------------------------------------------------------ the schema
Digit == <<"1", "2", "3", "4", "5", "6", "7", "8", "9">>

\* The identity a table gives its n-th inserted row.
IdOf(n) == <<Digit[n]>>

EmptyStore ==
    [contacts     |-> {},
     deals        |-> {},
     interactions |-> {},
     tasks        |-> {},
     audit_log    |-> <<>>,
     seq          |-> [t \in Tables |-> 0]]

\* The id the next INSERT into table t is given (cursor.lastrowid, then
\* SELECT id ... WHERE rowid = ?).
NextId(store, t) == IdOf(store.seq[t] + 1)

\* Rows that still reference a deleted contact keep their reference.
ForeignKeysAfterDelete(store, id) == store

\* ---------------------------------------------------------- audit ledger
AuditLogDropped(store, table, record_id, action, old, new) == store

AuditLogReplace(store, table, record_id, action, old, new) ==
    [store EXCEPT !.audit_log =
        (IF @ = <<>> THEN @ ELSE SubSeq(@, 1, Len(@) - 1)) \o
        <<[table_name |-> table, record_id |-> record_id, action |-> action,
           old_values |-> old, new_values |-> new]>>]

\* audit_log(conn, table, record_id, action, old, new): one INSERT INTO audit_log
audit_log(store, table, record_id, action, old, new) ==
    [store EXCEPT !.audit_log = Append(@,
        [table_name |-> table, record_id |-> record_id, action |-> action,
         old_values |-> old, new_values |-> new])]

\* The audit entry a handler is about to write.
Entry(table, record_id, action, old, new) ==
    [table_name |-> table, record_id |-> record_id, action |-> action,
     old_values |-> old, new_values |-> new]

WriteEntry(store, e) ==
    audit_log(store, e.table_name, e.record_id, e.action, e.old_values, e.new_values)

\* --------------------------------------------------------------- resolver
\* SELECT * FROM <table> WHERE id = ? OR lower(<label>) LIKE ?   (no ORDER BY;
\* fetchone() takes whichever matching row the engine yields first)
ContactMatches(store, ident) ==
    {r \in store.contacts : r.id = ident \/ Like(Pattern(ident), Lower(r.name))}

DealMatches(store, ident) ==
    {r \in store.deals : r.id = ident \/ Like(Pattern(ident), Lower(r.title))}

TaskMatches(store, ident) ==
    {r \in store.tasks : r.id = ident \/ Like(Pattern(ident), Lower(r.title))}

ContactByIdOrName(store, ident) ==
    {r \in store.contacts : r.id = ident \/ Like(Pattern(ident), Lower(r.name))}

\* delete_contact's lookup: SELECT * FROM contacts WHERE id = ?
ContactById(store, ident) == {r \in store.contacts : r.id = ident}

SoftContactIdsEcho(store, contact) == {contact}

\* The soft contact reference of add_deal / log_interaction / add_task: the ids
\* the lookup can yield; NULL when no contact is named or none matches.
SoftContactIds(store, contact) ==
    IF contact = NULL \/ ContactMatches(store, contact) = {}
    THEN {NULL}
    ELSE {r.id : r \in ContactMatches(store, contact)}

SuppliedAll(args, fields) == fields

\* A sparse dict: the fields of args that were supplied.
Supplied(args, fields) == {f \in fields : args[f] # NULL}

\* Overlay: the row with the columns of u replaced (UPDATE ... SET k = ?, ...).
SetColumns(row, u) == [f \in DOMAIN row |-> IF f \in DOMAIN u THEN u[f] ELSE row[f]]

\* Columns an INSERT does not name take the schema's default.
ContactDefaults(t) == [updated_at |-> <<t>>]
DealDefaults(t)    == [closed_at |-> NULL, updated_at |-> <<t>>]
TaskDefaults(t)    == [completed_at |-> NULL]

\* ------------------------------------------------------------- handlers
\* Each handler is given as the transaction it runs: `written` is the store
\* after its entity statement, `entry` the audit entry it then writes, `id`
\* the id it prints.  conn.commit() makes written + entry the committed store.

\* add_contact: INSERT INTO contacts, audit INSERT
add_contact(store, args, t) ==
    LET id  == NextId(store, "contacts")
        row == [id |-> id, name |-> args.name, email |-> args.email,
                updated_at |-> ContactDefaults(t).updated_at]
    IN [written |-> [store EXCEPT !.contacts = @ \cup {row},
                                  !.seq["contacts"] = @ + 1],
        id      |-> id,
        entry   |-> Entry("contacts", id, "INSERT", NULL,
                          [name |-> args.name, email |-> args.email])]

\* update_contact, lines 175-184: the sparse change set
ContactUpdates(args) == [f \in Supplied(args, {"name", "email"}) |-> args[f]]

\* update_contact, lines 190-200, for the row the lookup returned
update_contact(store, row, args, t) ==
    LET updates == [f \in DOMAIN ContactUpdates(args) \cup {"updated_at"} |->
                       IF f = "updated_at" THEN <<t>> ELSE args[f]]
    IN [written |-> [store EXCEPT !.contacts =
                        (@ \ {r \in @ : r.id = row.id})
                        \cup {SetColumns(r, updates) : r \in {q \in @ : q.id = row.id}}],
        id      |-> row.id,
        entry   |-> Entry("contacts", row.id, "UPDATE", row, updates)]

\* delete_contact, lines 211-216, for SELECT * FROM contacts WHERE id = ?
delete_contact(store, row, ident) ==
    [written |-> ForeignKeysAfterDelete(
                    [store EXCEPT !.contacts = {r \in @ : r.id # ident}], ident),
     id      |-> ident,
     entry   |-> Entry("contacts", ident, "DELETE", row, NULL)]

\* add_deal: INSERT INTO deals (closed_at is not among the columns), audit INSERT
add_deal(store, contact_id, args, t) ==
    LET id    == NextId(store, "deals")
        stage == IF args.stage = NULL THEN Lead ELSE args.stage
        row   == [id |-> id, contact_id |-> contact_id, title |-> args.title,
                  value |-> args.value, stage |-> stage,
                  probability |-> args.probability, notes |-> args.notes,
                  closed_at |-> DealDefaults(t).closed_at,
                  updated_at |-> DealDefaults(t).updated_at]
    IN [written |-> [store EXCEPT !.deals = @ \cup {row}, !.seq["deals"] = @ + 1],
        id      |-> id,
        entry   |-> Entry("deals", id, "INSERT", NULL,
                          [title |-> args.title, value |-> args.value, stage |-> stage])]

DealUpdatesCloseOnAnyStage(args, t) ==
    [f \in {g \in {"title", "value", "stage", "probability", "notes"} : args[g] # NULL}
           \cup (IF args.stage # NULL THEN {"closed_at"} ELSE {}) |->
        IF f = "closed_at" THEN <<t>> ELSE args[f]]

\* update_deal, lines 293-304: the sparse change set, with closed_at = now
\* whenever the supplied stage is won or lost
DealUpdates(args, t) ==
    [f \in Supplied(args, {"title", "value", "stage", "probability", "notes"})
           \cup (IF args.stage \in TerminalStages THEN {"closed_at"} ELSE {}) |->
        IF f = "closed_at" THEN <<t>> ELSE args[f]]

\* update_deal, lines 310-319, for the row the lookup returned
update_deal(store, row, args, t) ==
    LET updates == DealUpdates(args, t)
        columns == [f \in DOMAIN updates \cup {"updated_at"} |->
                       IF f = "updated_at" THEN <<t>> ELSE updates[f]]
    IN [written |-> [store EXCEPT !.deals =
                        (@ \ {r \in @ : r.id = row.id})
                        \cup {SetColumns(r, columns) : r \in {q \in @ : q.id = row.id}}],
        id      |-> row.id,
        entry   |-> Entry("deals", row.id, "UPDATE", row, updates)]

\* log_interaction: INSERT INTO interactions, audit INSERT
log_interaction(store, contact_id, args, t) ==
    LET id  == NextId(store, "interactions")
        row == [id |-> id, contact_id |-> contact_id, type |-> args.type,
                occurred_at |-> <<t>>]
    IN [written |-> [store EXCEPT !.interactions = @ \cup {row},
                                  !.seq["interactions"] = @ + 1],
        id      |-> id,
        entry   |-> Entry("interactions", id, "INSERT", NULL, [type |-> args.type])]

\* add_task: INSERT INTO tasks, audit INSERT
add_task(store, contact_id, args, t) ==
    LET id  == NextId(store, "tasks")
        row == [id |-> id, contact_id |-> contact_id, title |-> args.title,
                completed_at |-> TaskDefaults(t).completed_at]
    IN [written |-> [store EXCEPT !.tasks = @ \cup {row}, !.seq["tasks"] = @ + 1],
        id      |-> id,
        entry   |-> Entry("tasks", id, "INSERT", NULL, [title |-> args.title])]

\* complete_task, lines 495-502: UPDATE tasks SET completed_at = now WHERE id = ?
complete_task(store, row, t) ==
    [written |-> [store EXCEPT !.tasks =
                     (@ \ {r \in @ : r.id = row.id})
                     \cup {[r EXCEPT !.completed_at = <<t>>] : r \in {q \in @ : q.id = row.id}}],
     id      |-> row.id,
     entry   |-> Entry("tasks", row.id, "UPDATE", row, [completed_at |-> <<t>>])]

\* ------------------------------------------------ the mutation engine
\* One CLI invocation per step: the handler runs to its commit (or to its
\* sys.exit(1)) before the next invocation starts.

Outcome(op, status, id) == [op |-> op, status |-> status, id |-> id]

\* conn.commit() after the entity statement and the audit entry
Committed(txn) == WriteEntry(txn.written, txn.entry)

Succeed(op, status, txn) ==
    /\ db'   = Committed(txn)
    /\ last' = Outcome(op, status, txn.id)
    /\ nmut' = nmut + 1
    /\ nops' = nops + 1
    /\ work' = db'
    /\ UNCHANGED <<now, pending, pc>>
    /\ UNCHANGED fsVars

\* print({'error': ...}); sys.exit(1) before any statement that writes
Fail(op, status) ==
    /\ last' = Outcome(op, status, NULL)
    /\ nops' = nops + 1
    /\ UNCHANGED <<db, now, nmut, work, pending, pc>>
    /\ UNCHANGED fsVars

ContactArgs == [name : NameInputs, email : {NULL}]
ContactChanges == [name : {NULL} \cup NameInputs, email : {NULL} \cup EmailInputs]
DealArgs == [title : NameInputs, value : {NULL}, stage : {NULL, Won},
             probability : {NULL}, notes : {NULL}]
DealChanges == [title : {NULL}, value : {NULL}, stage : {NULL} \cup StageInputs,
                probability : {NULL}, notes : {NULL} \cup NoteInputs]

AddContact ==
    /\ nops < MaxOps
    /\ Cardinality(db.contacts) < MaxRows
    /\ \E args \in ContactArgs :
          Succeed("add_contact", "created", add_contact(db, args, now))

UpdateContact ==
    /\ nops < MaxOps
    /\ \E ident \in IdentInputs, args \in ContactChanges :
          IF ContactMatches(db, ident) = {}
          THEN Fail("update_contact", "not_found")
          ELSE \E row \in ContactMatches(db, ident) :
                  IF DOMAIN ContactUpdates(args) = {}
                  THEN Fail("update_contact", "no_updates")
                  ELSE Succeed("update_contact", "updated",
                               update_contact(db, row, args, now))

DeleteContact ==
    /\ nops < MaxOps
    /\ \E ident \in IdentInputs :
          LET rows == ContactById(db, ident)
          IN IF rows = {}
             THEN Fail("delete_contact", "not_found")
             ELSE \E row \in rows :
                     Succeed("delete_contact", "deleted", delete_contact(db, row, ident))

AddDeal ==
    /\ nops < MaxOps
    /\ Cardinality(db.deals) < MaxRows
    /\ \E contact \in ContactRefInputs, args \in DealArgs :
          \E contact_id \in SoftContactIds(db, contact) :
             Succeed("add_deal", "created", add_deal(db, contact_id, args, now))

UpdateDeal ==
    /\ nops < MaxOps
    /\ \E ident \in IdentInputs, args \in DealChanges :
          IF DealMatches(db, ident) = {}
          THEN Fail("update_deal", "not_found")
          ELSE \E row \in DealMatches(db, ident) :
                  IF DOMAIN DealUpdates(args, now) = {}
                  THEN Fail("update_deal", "no_updates")
                  ELSE Succeed("update_deal", "updated", update_deal(db, row, args, now))

LogInteraction ==
    /\ nops < MaxOps
    /\ Cardinality(db.interactions) < MaxRows
    /\ \E contact \in ContactRefInputs, args \in [type : {"call"}] :
          \E contact_id \in SoftContactIds(db, contact) :
             Succeed("log_interaction", "logged",
                     log_interaction(db, contact_id, args, now))

AddTask ==
    /\ nops < MaxOps
    /\ Cardinality(db.tasks) < MaxRows
    /\ \E contact \in ContactRefInputs, args \in [title : NameInputs] :
          \E contact_id \in SoftContactIds(db, contact) :
             Succeed("add_task", "created", add_task(db, contact_id, args, now))

CompleteTask ==
    /\ nops < MaxOps
    /\ \E ident \in IdentInputs :
          IF TaskMatches(db, ident) = {}
          THEN Fail("complete_task", "not_found")
          ELSE \E row \in TaskMatches(db, ident) :
                  Succeed("complete_task", "completed", complete_task(db, row, now))

\* Time passes between two invocations.
Tick ==
    /\ now < MaxTime
    /\ now' = now + 1
    /\ UNCHANGED <<db, last, nops, nmut, work, pending, pc>>
    /\ UNCHANGED fsVars

Init ==
    /\ db   = EmptyStore
    /\ now  = 1
    /\ last = Outcome("none", "none", NULL)
    /\ nops = 0
    /\ nmut = 0
    /\ work = EmptyStore
    /\ pending = NULL
    /\ pc   = "idle"
    /\ live = "v1"
    /\ bdir = <<>>
    /\ bnote = <<>>
    /\ ext  = "absent"
    /\ sec  = 1
    /\ rpc  = "idle"
    /\ rctx = NULL

Next ==
    \/ AddContact
    \/ UpdateContact
    \/ DeleteContact
    \/ AddDeal
    \/ UpdateDeal
    \/ LogInteraction
    \/ AddTask
    \/ CompleteTask
    \/ Tick

Spec == Init /\ [][Next]_vars

\* ------------------------------------- the mutation engine, by statement
\* The same handlers, one statement per step, with the process able to die
\* between any two statements.  get_db() opens the connection with the sqlite3
\* module's default transaction handling: the first INSERT / UPDATE / DELETE
\* opens a transaction, and nothing it writes is in the committed store until
\* conn.commit(); a connection that goes away first is rolled back.

AutoCommit(committed, working) == working

\* What a new connection reads while another one has uncommitted statements.
Uncommitted(committed, working) == committed

\* Every invocation that gets as far as its entity statement, with the
\* transaction it runs.
Invocations(store, t) ==
    {[op |-> "add_contact", status |-> "created", txn |-> add_contact(store, args, t)] :
        args \in {a \in ContactArgs : Cardinality(store.contacts) < MaxRows}}
    \cup
    {[op |-> "update_contact", status |-> "updated",
      txn |-> update_contact(store, x[1], x[2], t)] :
        x \in {y \in store.contacts \X ContactChanges :
                  /\ DOMAIN ContactUpdates(y[2]) # {}
                  /\ \E ident \in IdentInputs : y[1] \in ContactMatches(store, ident)}}
    \cup
    {[op |-> "delete_contact", status |-> "deleted",
      txn |-> delete_contact(store, row, row.id)] :
        row \in {r \in store.contacts : r.id \in IdentInputs}}
    \cup
    {[op |-> "add_deal", status |-> "created", txn |-> add_deal(store, x[1], x[2], t)] :
        x \in {y \in (UNION {SoftContactIds(store, c) : c \in ContactRefInputs}) \X DealArgs :
                  Cardinality(store.deals) < MaxRows}}
    \cup
    {[op |-> "update_deal", status |-> "updated",
      txn |-> update_deal(store, x[1], x[2], t)] :
        x \in {y \in store.deals \X DealChanges :
                  /\ DOMAIN DealUpdates(y[2], t) # {}
                  /\ \E ident \in IdentInputs : y[1] \in DealMatches(store, ident)}}
    \cup
    {[op |-> "log_interaction", status |-> "logged",
      txn |-> log_interaction(store, c, [type |-> "call"], t)] :
        c \in {d \in UNION {SoftContactIds(store, e) : e \in ContactRefInputs} :
                  Cardinality(store.interactions) < MaxRows}}
    \cup
    {[op |-> "add_task", status |-> "created", txn |-> add_task(store, x[1], x[2], t)] :
        x \in {y \in (UNION {SoftContactIds(store, c) : c \in ContactRefInputs})
                        \X [title : NameInputs] :
                  Cardinality(store.tasks) < MaxRows}}
    \cup
    {[op |-> "complete_task", status |-> "completed",
      txn |-> complete_task(store, row, t)] :
        row \in {r \in store.tasks :
                    \E ident \in IdentInputs : r \in TaskMatches(store, ident)}}

\* The handler's entity statement (INSERT / UPDATE / DELETE on its table).
TxEntityWrite ==
    /\ pc = "idle"
    /\ nops < MaxTxOps
    /\ \E inv \in Invocations(db, now) :
          /\ pending' = inv
          /\ work'    = inv.txn.written
          /\ db'      = Uncommitted(db, inv.txn.written)
    /\ pc' = "entity_written"
    /\ nops' = nops + 1
    /\ UNCHANGED <<now, last, nmut>>
    /\ UNCHANGED fsVars

\* The handler's call of audit_log().
TxAuditWrite ==
    /\ pc = "entity_written"
    /\ work' = WriteEntry(work, pending.txn.entry)
    /\ db'   = Uncommitted(db, work')
    /\ pc'   = "audit_written"
    /\ UNCHANGED <<now, last, nops, nmut, pending>>
    /\ UNCHANGED fsVars

\* conn.commit(), then the handler prints its result.
TxCommit ==
    /\ pc = "audit_written"
    /\ db'   = work
    /\ last' = Outcome(pending.op, pending.status, pending.txn.id)
    /\ nmut' = nmut + 1
    /\ pc'   = "idle"
    /\ pending' = NULL
    /\ UNCHANGED <<now, nops, work>>
    /\ UNCHANGED fsVars

\* The process dies before conn.commit(): the open transaction is rolled back.
TxInterrupt ==
    /\ pc \in {"entity_written", "audit_written"}
    /\ last' = Outcome(pending.op, "interrupted_at_" \o pc, NULL)
    /\ work' = db
    /\ pc'   = "idle"
    /\ pending' = NULL
    /\ UNCHANGED <<db, now, nops, nmut>>
    /\ UNCHANGED fsVars

TxTick ==
    /\ pc = "idle"
    /\ now < MaxTime
    /\ now' = now + 1
    /\ UNCHANGED <<db, last, nops, nmut, work, pending, pc>>
    /\ UNCHANGED fsVars

TxNext ==
    \/ TxEntityWrite
    \/ TxAuditWrite
    \/ TxCommit
    \/ TxInterrupt
    \/ TxTick

SpecTx == Init /\ [][TxNext]_vars

\* ---------------------------------------------------- backup and restore
\* File contents.  A file is absent, or holds bytes that are no SQLite
\* database, or a database without a contacts table (what sqlite3.connect
\* leaves when it creates a file), or a CRM database: v1 and v2 are two CRM
\* databases with different rows.
Absent  == "absent"
NotADb  == "notadb"
EmptyDb == "empty"
CrmDbs  == {"v1", "v2"}

None == "none"
SafetyNoteText == "Pre-restore safety backup"

\* The external file restore is pointed at is path 0; crm_backup_<ts>.db is path ts.
ExtPath == 0

Ret(status, error, raised) == [status |-> status, error |-> error, raised |-> raised]

Call(op, args, ret) == [op |-> op, args |-> args, ret |-> ret]

\* Path(p).exists() / the bytes at p
FileAt(dir, x, path) == IF path = ExtPath THEN x ELSE dir[path]

\* sqlite3.connect(DB_PATH); sqlite3.connect(backup_path); source.backup(dest):
\* connect creates a missing destination as an empty file; the copy raises when
\* either file is no database, and otherwise replaces the destination's content.
SqliteBackup(src, dir, ts) ==
    IF src = NotADb
    THEN [dir    |-> IF dir[ts] = Absent THEN [dir EXCEPT ![ts] = EmptyDb] ELSE dir,
          raised |-> "DatabaseError"]
    ELSE IF dir[ts] = NotADb
    THEN [dir |-> dir, raised |-> "DatabaseError"]
    ELSE [dir |-> [dir EXCEPT ![ts] = src], raised |-> None]

\* backup_database(note) at clock second ts
backup_database(l, dir, notes, ts, note) ==
    IF l = Absent
    THEN [dir |-> dir, notes |-> notes, ret |-> Ret(None, "Database not found", None)]
    ELSE LET b == SqliteBackup(l, dir, ts)
         IN IF b.raised # None
            THEN [dir |-> b.dir, notes |-> notes, ret |-> Ret(None, None, b.raised)]
            ELSE [dir   |-> b.dir,
                  notes |-> IF note # Absent THEN [notes EXCEPT ![ts] = note] ELSE notes,
                  ret   |-> Ret("success", None, None)]

\* restore_database, lines 96-105: what the two guards decide
RestoreGateNoConfirm(file, confirm) ==
    IF file = Absent THEN "missing" ELSE "proceed"

RestoreGate(file, confirm) ==
    IF file = Absent THEN "missing"
    ELSE IF ~confirm THEN "confirmation_required"
    ELSE "proceed"

\* restore_database, line 108: if Path(DB_PATH).exists()
NoSafetyBackup(l) == FALSE

NeedsSafetyBackup(l) == l # Absent

\* restore_database, lines 117-122: SELECT COUNT(*) FROM contacts
ProbeFails(l) == l \notin CrmDbs

Backup ==
    /\ rpc = "idle"
    /\ \E note \in {Absent, "user"} :
          LET b == backup_database(live, bdir, bnote, sec, note)
          IN /\ bdir'  = b.dir
             /\ bnote' = b.notes
             /\ last'  = Call("backup", [note |-> note, ts |-> sec], b.ret)
    /\ UNCHANGED <<live, ext, sec, rpc, rctx>>
    /\ UNCHANGED crmVars

\* restore_database(path, confirm), lines 96-105
RestoreRequest ==
    /\ rpc = "idle"
    /\ \E path \in {ExtPath} \cup DOMAIN bdir, confirm \in BOOLEAN :
          LET gate == RestoreGate(FileAt(bdir, ext, path), confirm)
              args == [path |-> path, confirm |-> confirm]
          IN CASE gate = "missing" ->
                    /\ last' = Call("restore", args, Ret(None, "Backup file not found", None))
                    /\ UNCHANGED <<rpc, rctx>>
               [] gate = "confirmation_required" ->
                    /\ last' = Call("restore", args, Ret("confirmation_required", None, None))
                    /\ UNCHANGED <<rpc, rctx>>
               [] gate = "proceed" ->
                    /\ last' = Call("restore", args, Ret("running", None, None))
                    /\ rctx' = [path |-> path, pre |-> live, existed |-> live # Absent,
                                safety |-> NULL]
                    /\ rpc'  = IF NeedsSafetyBackup(live) THEN "safety" ELSE "copy"
    /\ UNCHANGED <<live, bdir, bnote, ext, sec>>
    /\ UNCHANGED crmVars

\* restore_database, lines 109-111: safety_backup = backup_database(...)
RestoreSafetyBackup ==
    /\ rpc = "safety"
    /\ LET b == backup_database(live, bdir, bnote, sec, SafetyNoteText)
       IN /\ bdir'  = b.dir
          /\ bnote' = b.notes
          /\ IF b.ret.raised # None
             THEN /\ rpc'  = "idle"
                  /\ last' = Call("restore", last.args, b.ret)
                  /\ UNCHANGED rctx
             ELSE IF b.ret.error # None
             THEN /\ rpc'  = "idle"
                  /\ last' = Call("restore", last.args,
                                  Ret(None, "Failed to create safety backup", None))
                  /\ UNCHANGED rctx
             ELSE /\ rpc'  = "copy"
                  /\ rctx' = [rctx EXCEPT !.safety = <<sec>>]
                  /\ UNCHANGED last
    /\ UNCHANGED <<live, ext, sec>>
    /\ UNCHANGED crmVars

\* restore_database, line 114: shutil.copy2(backup_path, DB_PATH)
RestoreCopy ==
    /\ rpc = "copy"
    /\ live' = FileAt(bdir, ext, rctx.path)
    /\ rpc'  = "verify"
    /\ UNCHANGED <<last, bdir, bnote, ext, sec, rctx>>
    /\ UNCHANGED crmVars

\* restore_database, lines 116-129: the probe, then the result dict, whose
\* 'safety_backup' entry reads the local safety_backup whenever DB_PATH exists
RestoreVerify ==
    /\ rpc = "verify"
    /\ last' = Call("restore", last.args,
                    IF ProbeFails(live)
                    THEN Ret(None, "Restored database appears corrupt", None)
                    ELSE IF live # Absent /\ rctx.safety = NULL
                    THEN Ret(None, None, "UnboundLocalError")
                    ELSE Ret("success", None, None))
    /\ rpc'  = "idle"
    /\ UNCHANGED <<live, bdir, bnote, ext, sec, rctx>>
    /\ UNCHANGED crmVars

\* A crm.py invocation commits a change to the store (creating it when missing).
StoreWritten ==
    /\ rpc = "idle"
    /\ live \in {Absent} \cup CrmDbs
    /\ \E c \in CrmDbs \ {live} :
          /\ live' = c
          /\ last' = Call("crm", NULL, NULL)
    /\ UNCHANGED <<bdir, bnote, ext, sec, rpc, rctx>>
    /\ UNCHANGED crmVars

ClockTick ==
    /\ sec < MaxSec
    /\ sec' = sec + 1
    /\ UNCHANGED <<last, live, bdir, bnote, ext, rpc, rctx>>
    /\ UNCHANGED crmVars

InitRestore ==
    /\ db   = EmptyStore
    /\ now  = 1
    /\ last = Call("none", NULL, NULL)
    /\ nops = 0
    /\ nmut = 0
    /\ work = EmptyStore
    /\ pending = NULL
    /\ pc   = "idle"
    /\ live \in {Absent, "v1"}
    /\ bdir  = [t \in 1..MaxSec |-> Absent]
    /\ bnote = [t \in 1..MaxSec |-> Absent]
    /\ ext  \in {Absent, NotADb, EmptyDb, "v2"}
    /\ sec  = 1
    /\ rpc  = "idle"
    /\ rctx = NULL

NextRestore ==
    \/ Backup
    \/ RestoreRequest
    \/ RestoreSafetyBackup
    \/ RestoreCopy
    \/ RestoreVerify
    \/ StoreWritten
    \/ ClockTick

SpecRestore == InitRestore /\ [][NextRestore]_vars

\* ------------------------------------------------------------------ prune
\* sorted(..., reverse=True) on the timestamps parsed from the file names
RECURSIVE SortAscending(_)
SortAscending(S) ==
    IF S = {} THEN <<>>
    ELSE LET m == CHOOSE x \in S : \A y \in S : x <= y
         IN <<m>> \o SortAscending(S \ {m})

RECURSIVE SortDescending(_)
SortDescending(S) ==
    IF S = {} THEN <<>>
    ELSE LET m == CHOOSE x \in S : \A y \in S : y <= x
         IN <<m>> \o SortDescending(S \ {m})

GetBackupFilesOldestFirst(dir) ==
    SortAscending({ts \in DOMAIN dir : dir[ts] # Absent})

\* get_backup_files(): the crm_backup_*.db files, newest first
get_backup_files(dir) ==
    SortDescending({ts \in DOMAIN dir : dir[ts] # Absent})

RECURSIVE PruneLoopAbortOnFailure(_, _, _, _, _, _)
PruneLoopAbortOnFailure(to_remove, dir, notes, removed, fail_db, fail_note) ==
    IF to_remove = <<>>
    THEN [dir |-> dir, notes |-> notes, removed |-> removed]
    ELSE LET b    == Head(to_remove)
             rest == Tail(to_remove)
             dir1 == [dir EXCEPT ![b] = Absent]
         IN IF b \in fail_db
            THEN [dir |-> dir, notes |-> notes, removed |-> removed]
            ELSE IF notes[b] # Absent /\ b \in fail_note
            THEN [dir |-> dir1, notes |-> notes, removed |-> removed]
            ELSE PruneLoopAbortOnFailure(rest, dir1, [notes EXCEPT ![b] = Absent],
                                         Append(removed, b), fail_db, fail_note)

\* prune_backups, lines 161-170: the loop over to_remove.  fail_db and
\* fail_note are the files whose unlink raises; `except: pass` goes on to the
\* next backup.
RECURSIVE PruneLoop(_, _, _, _, _, _)
PruneLoop(to_remove, dir, notes, removed, fail_db, fail_note) ==
    IF to_remove = <<>>
    THEN [dir |-> dir, notes |-> notes, removed |-> removed]
    ELSE LET b    == Head(to_remove)
             rest == Tail(to_remove)
             dir1 == [dir EXCEPT ![b] = Absent]
         IN IF b \in fail_db
            THEN PruneLoop(rest, dir, notes, removed, fail_db, fail_note)
            ELSE IF notes[b] # Absent /\ b \in fail_note
            THEN PruneLoop(rest, dir1, notes, removed, fail_db, fail_note)
            ELSE PruneLoop(rest, dir1, [notes EXCEPT ![b] = Absent],
                           Append(removed, b), fail_db, fail_note)

\* prune_backups(keep)
prune_backups(dir, notes, keep, fail_db, fail_note) ==
    LET backups == get_backup_files(dir)
    IN IF Len(backups) <= keep
       THEN [dir |-> dir, notes |-> notes,
             ret |-> [status |-> "success", removed |-> 0]]
       ELSE LET done == PruneLoop(SubSeq(backups, keep + 1, Len(backups)),
                                  dir, notes, <<>>, fail_db, fail_note)
            IN [dir |-> done.dir, notes |-> done.notes,
                ret |-> [status |-> "success", kept |-> keep,
                         removed |-> Len(done.removed),
                         removed_files |-> done.removed]]

\* The unlink calls that fail during one prune: none, the one on one backup
\* file, or the one on one note file.
Failures(dir, notes) ==
    {[db |-> {}, note |-> {}]}
    \cup {[db |-> {ts}, note |-> {}] : ts \in {t \in DOMAIN dir : dir[t] # Absent}}
    \cup {[db |-> {}, note |-> {ts}] : ts \in {t \in DOMAIN notes : notes[t] # Absent}}

Prune ==
    /\ rpc = "idle"
    /\ \E keep \in 0..MaxKeep, fail \in Failures(bdir, bnote) :
          LET p == prune_backups(bdir, bnote, keep, fail.db, fail.note)
              fail_db   == fail.db
              fail_note == fail.note
          IN /\ bdir'  = p.dir
             /\ bnote' = p.notes
             /\ last'  = Call("prune",
                              [keep |-> keep, fail_db |-> fail_db, fail_note |-> fail_note],
                              p.ret)
    /\ UNCHANGED <<live, ext, sec, rpc, rctx>>
    /\ UNCHANGED crmVars

\* Any backup directory: each timestamp has no backup, a backup, or a backup
\* with a note beside it.
InitPrune ==
    /\ db   = EmptyStore
    /\ now  = 1
    /\ last = Call("none", NULL, NULL)
    /\ nops = 0
    /\ nmut = 0
    /\ work = EmptyStore
    /\ pending = NULL
    /\ pc   = "idle"
    /\ live = "v1"
    /\ bdir  \in [1..MaxBackups -> {Absent, "v1"}]
    /\ bnote \in [1..MaxBackups -> {Absent, "user"}]
    /\ \A ts \in 1..MaxBackups : bnote[ts] # Absent => bdir[ts] # Absent
    /\ ext  = Absent
    /\ sec  = 1
    /\ rpc  = "idle"
    /\ rctx = NULL

NextPrune == Prune

SpecPrune == InitPrune /\ [][NextPrune]_vars

\* ------------------------------------- the mutation engine, call by call
\* The handlers again, one invocation per step, started from a store that
\* already holds records and with the command line of each invocation kept
\* beside its result.

\* Names and titles of the records the store starts with.
LabelInputs == {<<"a">>, <<"A", "2">>}

\* Identifiers a caller passes: an id, a fragment of a name, or neither.
CallIdents == IdentInputs \cup {<<"z">>}

\* add-deal <title>, update-deal --title <title>: no other option given
DealTitled(title) ==
    [title |-> title, value |-> NULL, stage |-> NULL, probability |-> NULL, notes |-> NULL]

\* Two contacts, two deals (the second one won) and two tasks, entered through
\* the handlers: the first of each at instant 1, the second at instant t2.
Populated(n1, n2, t2) ==
    LET c1 == Committed(add_contact(EmptyStore, [name |-> n1, email |-> NULL], 1))
        c2 == Committed(add_contact(c1, [name |-> n2, email |-> NULL], t2))
        d1 == Committed(add_deal(c2, NULL, [DealTitled(n1) EXCEPT !.value = <<1000>>], 1))
        d2 == Committed(add_deal(d1, NULL, DealTitled(n2), t2))
        d3 == Committed(update_deal(d2, CHOOSE r \in d2.deals : r.id = IdOf(2),
                                    [DealTitled(NULL) EXCEPT !.stage = Won], t2))
        k1 == Committed(add_task(d3, NULL, [title |-> n1], 1))
        k2 == Committed(add_task(k1, NULL, [title |-> n2], t2))
    IN k2

\* conn.commit(), then print(json.dumps({'status': ..., 'id': ...}))
Accept(op, args, status, txn) ==
    /\ db'   = Committed(txn)
    /\ last' = Call(op, args, [status |-> status, id |-> txn.id])
    /\ nmut' = nmut + 1
    /\ nops' = nops + 1
    /\ work' = db'
    /\ UNCHANGED <<now, pending, pc>>
    /\ UNCHANGED fsVars

RejectAfterAudit(op, args, status) ==
    /\ db'   = audit_log(db, "none", NULL, status, NULL, NULL)
    /\ last' = Call(op, args, [status |-> status, id |-> NULL])
    /\ nops' = nops + 1
    /\ work' = db'
    /\ UNCHANGED <<now, nmut, pending, pc>>
    /\ UNCHANGED fsVars

\* print(json.dumps({'error': ...})); sys.exit(1)
Reject(op, args, status) ==
    /\ last' = Call(op, args, [status |-> status, id |-> NULL])
    /\ nops' = nops + 1
    /\ UNCHANGED <<db, now, nmut, work, pending, pc>>
    /\ UNCHANGED fsVars

CallUpdateContact ==
    /\ nops < MaxCallOps
    /\ \E ident \in CallIdents, changes \in ContactChanges :
          LET args == [ident |-> ident, changes |-> changes]
          IN IF ContactMatches(db, ident) = {}
             THEN Reject("update_contact", args, "not_found")
             ELSE \E row \in ContactMatches(db, ident) :
                     IF DOMAIN ContactUpdates(changes) = {}
                     THEN Reject("update_contact", args, "no_updates")
                     ELSE Accept("update_contact", args, "updated",
                                 update_contact(db, row, changes, now))

CallDeleteContact ==
    /\ nops < MaxCallOps
    /\ \E ident \in CallIdents :
          LET args == [ident |-> ident]
              rows == ContactById(db, ident)
          IN IF rows = {}
             THEN Reject("delete_contact", args, "not_found")
             ELSE \E row \in rows :
                     Accept("delete_contact", args, "deleted",
                            delete_contact(db, row, ident))

CallAddDeal ==
    /\ nops < MaxCallOps
    /\ Cardinality(db.deals) < MaxCallRows
    /\ \E contact \in {NULL} \cup CallIdents :
          \E contact_id \in SoftContactIds(db, contact) :
             Accept("add_deal", [contact |-> contact], "created",
                    add_deal(db, contact_id, DealTitled(<<"a">>), now))

CallUpdateDeal ==
    /\ nops < MaxCallOps
    /\ \E ident \in CallIdents, changes \in DealChanges :
          LET args == [ident |-> ident, changes |-> changes]
          IN IF DealMatches(db, ident) = {}
             THEN Reject("update_deal", args, "not_found")
             ELSE \E row \in DealMatches(db, ident) :
                     IF DOMAIN DealUpdates(changes, now) = {}
                     THEN Reject("update_deal", args, "no_updates")
                     ELSE Accept("update_deal", args, "updated",
                                 update_deal(db, row, changes, now))

CallLogInteraction ==
    /\ nops < MaxCallOps
    /\ Cardinality(db.interactions) < MaxCallRows
    /\ \E contact \in {NULL} \cup CallIdents :
          \E contact_id \in SoftContactIds(db, contact) :
             Accept("log_interaction", [contact |-> contact], "logged",
                    log_interaction(db, contact_id, [type |-> "call"], now))

CallAddTask ==
    /\ nops < MaxCallOps
    /\ Cardinality(db.tasks) < MaxCallRows
    /\ \E contact \in {NULL} \cup CallIdents :
          \E contact_id \in SoftContactIds(db, contact) :
             Accept("add_task", [contact |-> contact], "created",
                    add_task(db, contact_id, [title |-> <<"a">>], now))

CallCompleteTask ==
    /\ nops < MaxCallOps
    /\ \E ident \in CallIdents :
          LET args == [ident |-> ident]
          IN IF TaskMatches(db, ident) = {}
             THEN Reject("complete_task", args, "not_found")
             ELSE \E row \in TaskMatches(db, ident) :
                     Accept("complete_task", args, "completed",
                            complete_task(db, row, now))

InitCall ==
    /\ \E n1 \in LabelInputs, n2 \in LabelInputs, t2 \in 1..MaxTime :
          /\ db  = Populated(n1, n2, t2)
          /\ now = t2
    /\ last = Call("none", NULL, NULL)
    /\ nops = 0
    /\ nmut = Len(db.audit_log)
    /\ work = db
    /\ pending = NULL
    /\ pc   = "idle"
    /\ live = "v1"
    /\ bdir = <<>>
    /\ bnote = <<>>
    /\ ext  = Absent
    /\ sec  = 1
    /\ rpc  = "idle"
    /\ rctx = NULL

NextCall ==
    \/ CallUpdateContact
    \/ CallDeleteContact
    \/ CallAddDeal
    \/ CallUpdateDeal
    \/ CallLogInteraction
    \/ CallAddTask
    \/ CallCompleteTask
    \/ Tick

SpecCall == InitCall /\ [][NextCall]_vars

\* ------------------------------------------------------------- parse_date
\* Texts are sequences of characters; a datetime is its day (the proleptic
\* Gregorian ordinal, the 1st of January of year 1 being day 1) and its time of
\* day; the value parse_date returns is the datetime whose isoformat() it
\* returns, the text it passes through, None, or the exception it raises.

Uppercase == <<"A", "B", "C", "D", "E", "F", "G", "H", "I", "J", "K", "L", "M", "N", "O", "P", "Q", "R", "S", "T", "U", "V", "W", "X", "Y", "Z">>
Lowercase == <<"a", "b", "c", "d", "e", "f", "g", "h", "i", "j", "k", "l", "m", "n", "o", "p", "q", "r", "s", "t", "u", "v", "w", "x", "y", "z">>
DecimalDigits == <<"0", "1", "2", "3", "4", "5", "6", "7", "8", "9">>

\* str.lower()
PyLowerCh(c) ==
    IF \E i \in 1..Len(Uppercase) : Uppercase[i] = c
    THEN Lowercase[CHOOSE i \in 1..Len(Uppercase) : Uppercase[i] = c]
    ELSE c

PyLower(s) == [i \in 1..Len(s) |-> PyLowerCh(s[i])]

\* str.strip()
RECURSIVE LStrip(_)
LStrip(s) == IF s # <<>> /\ Head(s) = " " THEN LStrip(Tail(s)) ELSE s

RECURSIVE RStrip(_)
RStrip(s) == IF s # <<>> /\ s[Len(s)] = " " THEN RStrip(SubSeq(s, 1, Len(s) - 1)) ELSE s

Strip(s) == RStrip(LStrip(s))

\* str.startswith(p), and s[n:]
StartsWith(s, p) == Len(s) >= Len(p) /\ SubSeq(s, 1, Len(p)) = p

After(s, n) == SubSeq(s, n + 1, Len(s))

IsDigit(c) == \E i \in 1..Len(DecimalDigits) : DecimalDigits[i] = c

DigitValue(c) == (CHOOSE i \in 1..Len(DecimalDigits) : DecimalDigits[i] = c) - 1

AllDigits(f) == \A i \in 1..Len(f) : IsDigit(f[i])

\* int(text of digits)
RECURSIVE ParseInt(_)
ParseInt(ds) ==
    IF ds = <<>> THEN 0
    ELSE ParseInt(SubSeq(ds, 1, Len(ds) - 1)) * 10 + DigitValue(ds[Len(ds)])

\* How many digits s starts with.
RECURSIVE DigitRun(_)
DigitRun(s) == IF s # <<>> /\ IsDigit(Head(s)) THEN 1 + DigitRun(Tail(s)) ELSE 0

\* The calendar of the datetime module.
IsLeap(y) == y % 4 = 0 /\ (y % 100 # 0 \/ y % 400 = 0)

DaysInMonth(y, m) ==
    CASE m \in {4, 6, 9, 11} -> 30
      [] m = 2               -> IF IsLeap(y) THEN 29 ELSE 28
      [] OTHER               -> 31

DaysBeforeYear(y) ==
    365 * (y - 1) + ((y - 1) \div 4) - ((y - 1) \div 100) + ((y - 1) \div 400)

RECURSIVE DaysBeforeMonth(_, _)
DaysBeforeMonth(y, m) ==
    IF m = 1 THEN 0 ELSE DaysBeforeMonth(y, m - 1) + DaysInMonth(y, m - 1)

ToOrdinal(y, m, d) == DaysBeforeYear(y) + DaysBeforeMonth(y, m) + d

YearOf(ord) ==
    CHOOSE y \in (ord \div 366)..((ord \div 365) + 1) :
        DaysBeforeYear(y) < ord /\ ord <= DaysBeforeYear(y + 1)

\* datetime.weekday(): Monday is 0
Weekday(ord) == (ord + 6) % 7

\* datetime.max is the last day of year 9999; timedelta holds at most
\* 999999999 days.
MaxOrdinal == 3652059
MaxTimedeltaDays == 999999999

Resolved(dt)  == [kind |-> "date", day |-> dt.day, tod |-> dt.tod, text |-> <<>>]
Unparsed(s)   == [kind |-> "text", day |-> 0, tod |-> 0, text |-> s]
Raises(e)     == [kind |-> e, day |-> 0, tod |-> 0, text |-> <<>>]
NoneReturned  == [kind |-> "none", day |-> 0, tod |-> 0, text |-> <<>>]

\* (today + timedelta(days=n)).isoformat()
PlusDays(dt, n) ==
    IF n > MaxTimedeltaDays \/ n < -MaxTimedeltaDays
    THEN Raises("OverflowError")
    ELSE IF dt.day + n > MaxOrdinal \/ dt.day + n < 1
    THEN Raises("OverflowError")
    ELSE Resolved([day |-> dt.day + n, tod |-> dt.tod])

\* re.match(r'in (\d+) (day|week|month)s?', s): the match starts at the first
\* character and may end before the last
NoMatch == [n |-> 0, unit |-> "none"]

InMatch(s) ==
    IF ~StartsWith(s, <<"i", "n", " ">>) THEN NoMatch
    ELSE LET r == After(s, 3)
             k == DigitRun(r)
             u == After(r, k + 1)
         IN IF k = 0 \/ Len(r) <= k \/ r[k + 1] # " " THEN NoMatch
            ELSE IF StartsWith(u, <<"d", "a", "y">>)
                 THEN [n |-> ParseInt(SubSeq(r, 1, k)), unit |-> "day"]
            ELSE IF StartsWith(u, <<"w", "e", "e", "k">>)
                 THEN [n |-> ParseInt(SubSeq(r, 1, k)), unit |-> "week"]
            ELSE IF StartsWith(u, <<"m", "o", "n", "t", "h">>)
                 THEN [n |-> ParseInt(SubSeq(r, 1, k)), unit |-> "month"]
            ELSE NoMatch

days ==
    <<<<"m", "o", "n", "d", "a", "y">>,
      <<"t", "u", "e", "s", "d", "a", "y">>,
      <<"w", "e", "d", "n", "e", "s", "d", "a", "y">>,
      <<"t", "h", "u", "r", "s", "d", "a", "y">>,
      <<"f", "r", "i", "d", "a", "y">>,
      <<"s", "a", "t", "u", "r", "d", "a", "y">>,
      <<"s", "u", "n", "d", "a", "y">>>>

\* days.index(name)
DayIndex(name) == (CHOOSE i \in 1..Len(days) : days[i] = name) - 1

IsDayName(s) == \E i \in 1..Len(days) : days[i] = s

WeekdayDeltaSameDayToday(target_day, current_day) ==
    IF target_day - current_day < 0
    THEN target_day - current_day + 7
    ELSE target_day - current_day

\* delta = target_day - current_day; if delta <= 0: delta += 7
WeekdayDelta(target_day, current_day) ==
    IF target_day - current_day <= 0
    THEN target_day - current_day + 7
    ELSE target_day - current_day

\* datetime.strptime
FullMonths ==
    <<<<"j", "a", "n", "u", "a", "r", "y">>,
      <<"f", "e", "b", "r", "u", "a", "r", "y">>,
      <<"m", "a", "r", "c", "h">>,
      <<"a", "p", "r", "i", "l">>,
      <<"m", "a", "y">>,
      <<"j", "u", "n", "e">>,
      <<"j", "u", "l", "y">>,
      <<"a", "u", "g", "u", "s", "t">>,
      <<"s", "e", "p", "t", "e", "m", "b", "e", "r">>,
      <<"o", "c", "t", "o", "b", "e", "r">>,
      <<"n", "o", "v", "e", "m", "b", "e", "r">>,
      <<"d", "e", "c", "e", "m", "b", "e", "r">>>>

AbbrMonths ==
    <<<<"j", "a", "n">>,
      <<"f", "e", "b">>,
      <<"m", "a", "r">>,
      <<"a", "p", "r">>,
      <<"m", "a", "y">>,
      <<"j", "u", "n">>,
      <<"j", "u", "l">>,
      <<"a", "u", "g">>,
      <<"s", "e", "p">>,
      <<"o", "c", "t">>,
      <<"n", "o", "v">>,
      <<"d", "e", "c">>>>

RECURSIVE Split(_, _)
Split(s, sep) ==
    IF \A i \in 1..Len(s) : s[i] # sep THEN <<s>>
    ELSE LET k == CHOOSE i \in 1..Len(s) : s[i] = sep /\ \A j \in 1..(i - 1) : s[j] # sep
         IN <<SubSeq(s, 1, k - 1)>> \o Split(After(s, k), sep)

\* %Y is \d\d\d\d, %m is 1[0-2]|0[1-9]|[1-9], %d is 3[0-1]|[1-2]\d|0[1-9]|[1-9]| [1-9]
IsYear(f)  == Len(f) = 4 /\ AllDigits(f)
IsMonth(f) == Len(f) \in {1, 2} /\ AllDigits(f) /\ ParseInt(f) \in 1..12
IsDay(f)   == \/ Len(f) \in {1, 2} /\ AllDigits(f) /\ ParseInt(f) \in 1..31
              \/ Len(f) = 2 /\ f[1] = " " /\ IsDigit(f[2]) /\ f[2] # "0"

NoDate == [ok |-> FALSE, y |-> 0, m |-> 0, d |-> 0]

\* datetime(y, m, d), a ValueError when there is no such day
MakeDate(y, m, d) ==
    IF y >= 1 /\ d <= DaysInMonth(y, m)
    THEN [ok |-> TRUE, y |-> y, m |-> m, d |-> d]
    ELSE NoDate

\* '<month name> %d': the blank of the format is \s+
MonthNameDate(s, names) ==
    LET fits(i) == /\ StartsWith(s, names[i])
                   /\ After(s, Len(names[i])) # <<>>
                   /\ Head(After(s, Len(names[i]))) = " "
                   /\ LET r == LStrip(After(s, Len(names[i])))
                      IN Len(r) \in {1, 2} /\ AllDigits(r) /\ ParseInt(r) \in 1..31
    IN IF \E i \in 1..Len(names) : fits(i)
       THEN LET i == CHOOSE j \in 1..Len(names) : fits(j)
            IN MakeDate(1900, i, ParseInt(LStrip(After(s, Len(names[i])))))
       ELSE NoDate

Formats == <<"%Y-%m-%d", "%m/%d/%Y", "%m/%d", "%B %d", "%b %d">>

strptime(s, fmt) ==
    CASE fmt = "%Y-%m-%d" ->
           LET f == Split(s, "-")
           IN IF Len(f) = 3 /\ IsYear(f[1]) /\ IsMonth(f[2]) /\ IsDay(f[3])
              THEN MakeDate(ParseInt(f[1]), ParseInt(f[2]), ParseInt(LStrip(f[3])))
              ELSE NoDate
      [] fmt = "%m/%d/%Y" ->
           LET f == Split(s, "/")
           IN IF Len(f) = 3 /\ IsMonth(f[1]) /\ IsDay(f[2]) /\ IsYear(f[3])
              THEN MakeDate(ParseInt(f[3]), ParseInt(f[1]), ParseInt(LStrip(f[2])))
              ELSE NoDate
      [] fmt = "%m/%d" ->
           LET f == Split(s, "/")
           IN IF Len(f) = 2 /\ IsMonth(f[1]) /\ IsDay(f[2])
              THEN MakeDate(1900, ParseInt(f[1]), ParseInt(LStrip(f[2])))
              ELSE NoDate
      [] fmt = "%B %d" -> MonthNameDate(s, FullMonths)
      [] fmt = "%b %d" -> MonthNameDate(s, AbbrMonths)

\* parse_date, lines 84-93: the first format that parses; a date of year 1900
\* takes today's year, and the next year when that lies before today
RECURSIVE TryFormats(_, _, _)
TryFormats(s, today, i) ==
    IF i > Len(Formats) THEN Unparsed(s)
    ELSE LET dt == strptime(s, Formats[i])
         IN IF ~dt.ok THEN TryFormats(s, today, i + 1)
            ELSE LET y1 == IF dt.y = 1900 THEN YearOf(today.day) ELSE dt.y
                     y2 == IF dt.y = 1900 /\ ToOrdinal(y1, dt.m, dt.d) < today.day
                           THEN y1 + 1 ELSE y1
                 IN Resolved([day |-> ToOrdinal(y2, dt.m, dt.d), tod |-> 0])

\* parse_date(s) called at instant T
parse_date(s0, T) ==
    IF s0 = <<>> THEN NoneReturned
    ELSE LET s     == Strip(PyLower(s0))
             today == [day |-> T.day, tod |-> 0]
             m     == InMatch(s)
         IN IF s = <<"t", "o", "d", "a", "y">> THEN Resolved(today)
            ELSE IF s = <<"t", "o", "m", "o", "r", "r", "o", "w">> THEN PlusDays(today, 1)
            ELSE IF s = <<"y", "e", "s", "t", "e", "r", "d", "a", "y">> THEN PlusDays(today, -1)
            ELSE IF StartsWith(s, <<"n", "e", "x", "t", " ">>) /\ After(s, 5) = <<"w", "e", "e", "k">>
                 THEN PlusDays(today, 7)
            ELSE IF StartsWith(s, <<"n", "e", "x", "t", " ">>) /\ After(s, 5) = <<"m", "o", "n", "t", "h">>
                 THEN PlusDays(today, 30)
            ELSE IF m.unit = "day"   THEN PlusDays(today, m.n)
            ELSE IF m.unit = "week"  THEN PlusDays(today, m.n * 7)
            ELSE IF m.unit = "month" THEN PlusDays(today, m.n * 30)
            ELSE IF IsDayName(s) \/ (StartsWith(s, <<"n", "e", "x", "t", " ">>) /\ IsDayName(After(s, 5)))
                 THEN LET target_day  == DayIndex(IF IsDayName(s) THEN s ELSE After(s, 5))
                          current_day == Weekday(today.day)
                      IN PlusDays(today, WeekdayDelta(target_day, current_day))
            ELSE TryFormats(s, today, 1)

\* Expressions handed to parse_date.
NInputs == {<<"0">>, <<"3">>, <<"1", "0">>, <<"9", "9", "9", "9", "9", "9", "9">>}

UnitInputs == {<<"d", "a", "y">>, <<"w", "e", "e", "k">>, <<"m", "o", "n", "t", "h">>}

InExpr(ds, unit, plural) ==
    <<"i", "n", " ">> \o ds \o <<" ">> \o unit \o (IF plural THEN <<"s">> ELSE <<>>)

NextExpr(name) == <<"n", "e", "x", "t", " ">> \o name

KeywordInputs ==
    {<<"t", "o", "d", "a", "y">>,
     <<"T", "o", "d", "a", "y">>,
     <<" ", "t", "o", "d", "a", "y", " ">>,
     <<"t", "o", "m", "o", "r", "r", "o", "w">>,
     <<"y", "e", "s", "t", "e", "r", "d", "a", "y">>,
     <<"n", "e", "x", "t", " ", "w", "e", "e", "k">>,
     <<"n", "e", "x", "t", " ", "m", "o", "n", "t", "h">>}

DateTextInputs ==
    {<<"2", "0", "2", "4", "-", "0", "1", "-", "0", "5">>,
     <<"2", "0", "2", "4", "-", "1", "-", "5">>,
     <<"1", "2", "/", "2", "5", "/", "2", "0", "2", "4">>,
     <<"1", "/", "3">>,
     <<"2", "/", "2", "9">>,
     <<"1", "3", "/", "1">>,
     <<"j", "a", "n", " ", "5">>,
     <<"J", "a", "n", "u", "a", "r", "y", " ", "5">>,
     <<"1", "9", "0", "0", "-", "0", "5", "-", "0", "5">>,
     <<"2", "0", "2", "4", "-", "0", "2", "-", "3", "0">>}

OtherInputs ==
    {<<"s", "o", "m", "e", "d", "a", "y">>,
     <<"S", "o", "m", "e", "d", "a", "y">>,
     <<" ", "s", "o", "o", "n", " ">>,
     <<" ">>,
     <<"i", "n", " ", "3", " ", "d", "a", "y", "s", " ", "l", "a", "t", "e", "r">>,
     <<"i", "n", " ", " ", "3", " ", "d", "a", "y", "s">>,
     <<"i", "n", " ", "3", " ", "y", "e", "a", "r", "s">>,
     <<"n", "e", "x", "t", " ", " ", "f", "r", "i", "d", "a", "y">>,
     <<"F", "r", "i", "d", "a", "y">>}

DateInputs ==
    KeywordInputs
    \cup {InExpr(ds, u, p) : ds \in NInputs, u \in UnitInputs, p \in BOOLEAN}
    \cup {days[i] : i \in 1..Len(days)}
    \cup {NextExpr(days[i]) : i \in 1..Len(days)}
    \cup DateTextInputs
    \cup OtherInputs
    \cup {<<>>}

\* The first day the clock shows: Monday the 1st of January 2024.
FirstRefDay == 738886

RefInstants == [day : FirstRefDay..(FirstRefDay + MaxRefDays - 1), tod : 0..MaxTod]

\* One call of parse_date at the instant the clock shows.
ParseDate ==
    /\ \E s \in DateInputs :
          last' = Call("parse_date", [s |-> s, T |-> now], parse_date(s, now))
    /\ UNCHANGED <<db, now, nops, nmut, work, pending, pc>>
    /\ UNCHANGED fsVars

InitDate ==
    /\ db   = EmptyStore
    /\ now  \in RefInstants
    /\ last = Call("none", NULL, NULL)
    /\ nops = 0
    /\ nmut = 0
    /\ work = EmptyStore
    /\ pending = NULL
    /\ pc   = "idle"
    /\ live = "v1"
    /\ bdir = <<>>
    /\ bnote = <<>>
    /\ ext  = Absent
    /\ sec  = 1
    /\ rpc  = "idle"
    /\ rctx = NULL

NextDate == ParseDate

SpecDate == InitDate /\ [][NextDate]_vars

\* --------------------------------------------------------------- pipeline
\* Deals as add-deal enters them, for the pipeline summary to read.
PipelineDealArgs ==
    [title : {<<"a">>}, value : {NULL, <<1000>>, <<2000>>},
     stage : {NULL, Qualified, Won, Lost},
     probability : {NULL, <<0>>, <<80>>}, notes : {NULL}]

RECURSIVE Entered(_)
Entered(calls) ==
    IF calls = <<>> THEN EmptyStore
    ELSE Committed(add_deal(Entered(SubSeq(calls, 1, Len(calls) - 1)), NULL,
                            calls[Len(calls)], 1))

AllDeals(store) == store.deals

\* FROM deals WHERE stage NOT IN ('won', 'lost')
OpenDeals(store) == {d \in store.deals : d.stage # NULL /\ d.stage \notin {Won, Lost}}

\* SUM(value): NULL values are skipped, and the sum of no value is NULL
RECURSIVE SumValue(_)
SumValue(rows) ==
    IF \A d \in rows : d.value = NULL THEN NULL
    ELSE LET d    == CHOOSE x \in rows : x.value # NULL
             rest == SumValue(rows \ {d})
         IN <<d.value[1] + (IF rest = NULL THEN 0 ELSE rest[1])>>

\* COALESCE(probability, 50)
Coalesce(x, default) == IF x = NULL THEN default ELSE x

\* SUM(value * COALESCE(probability, 50) / 100.0); the values of the model are
\* whole hundreds, so that the division is exact
RECURSIVE SumWeighted(_)
SumWeighted(rows) ==
    IF \A d \in rows : d.value = NULL THEN NULL
    ELSE LET d    == CHOOSE x \in rows : x.value # NULL
             rest == SumWeighted(rows \ {d})
         IN <<(d.value[1] * Coalesce(d.probability, <<50>>)[1]) \div 100
              + (IF rest = NULL THEN 0 ELSE rest[1])>>

\* ORDER BY CASE stage WHEN 'lead' THEN 1 WHEN 'qualified' THEN 2 ...
StageOrder == <<Lead, Qualified>>

\* GROUP BY stage: one row per stage that has an open deal
RECURSIVE StageRows(_, _)
StageRows(open, i) ==
    IF i > Len(StageOrder) THEN <<>>
    ELSE LET group == {d \in open : d.stage = StageOrder[i]}
         IN (IF group = {} THEN <<>>
             ELSE <<[stage |-> StageOrder[i], count |-> Cardinality(group),
                     total_value |-> SumValue(group)]>>)
            \o StageRows(open, i + 1)

\* x or 0
OrZero(x) == IF x = NULL THEN 0 ELSE x[1]

RECURSIVE SumRows(_, _)
SumRows(rows, field) ==
    IF rows = <<>> THEN 0
    ELSE (IF field = "count" THEN Head(rows).count ELSE OrZero(Head(rows).total_value))
         + SumRows(Tail(rows), field)

\* pipeline(args): the dict it prints
pipeline(store) ==
    LET rows == StageRows(OpenDeals(store), 1)
    IN [stages         |-> rows,
        total_deals    |-> SumRows(rows, "count"),
        total_value    |-> SumRows(rows, "total_value"),
        weighted_value |-> OrZero(SumWeighted(OpenDeals(store)))]

Pipeline ==
    /\ last' = Call("pipeline", NULL, pipeline(db))
    /\ UNCHANGED <<db, now, nops, nmut, work, pending, pc>>
    /\ UNCHANGED fsVars

InitPipeline ==
    /\ \E n \in 0..MaxDeals : \E calls \in [1..n -> PipelineDealArgs] :
          db = Entered(calls)
    /\ now  = 1
    /\ last = Call("none", NULL, NULL)
    /\ nops = 0
    /\ nmut = Len(db.audit_log)
    /\ work = db
    /\ pending = NULL
    /\ pc   = "idle"
    /\ live = "v1"
    /\ bdir = <<>>
    /\ bnote = <<>>
    /\ ext  = Absent
    /\ sec  = 1
    /\ rpc  = "idle"
    /\ rctx = NULL

NextPipeline == Pipeline

SpecPipeline == InitPipeline /\ [][NextPipeline]_vars

\* ------------------------------------------------------------- claims
TableOf(op) ==
    CASE op \in {"add_contact", "update_contact", "delete_contact"} -> "contacts"
      [] op \in {"add_deal", "update_deal"}                         -> "deals"
      [] op = "log_interaction"                                     -> "interactions"
      [] op \in {"add_task", "complete_task"}                       -> "tasks"

ActionOf(op) ==
    CASE op \in {"add_contact", "add_deal", "log_interaction", "add_task"} -> "INSERT"
      [] op \in {"update_contact", "update_deal", "complete_task"}         -> "UPDATE"
      [] op = "delete_contact"                                             -> "DELETE"

Ids(rows) == {r.id : r \in rows}

\* The step is a successful mutation: the ledger grew by exactly one entry, and
\* that entry names the table, the record and the kind of change of the step.
OneMatchingEntry ==
    LET e == db'.audit_log[Len(db'.audit_log)]
        T == TableOf(last'.op)
    IN /\ Len(db'.audit_log) = Len(db.audit_log) + 1
       /\ e.table_name = T
       /\ e.record_id = last'.id
       /\ e.action = ActionOf(last'.op)
       /\ e.action = "INSERT" => Ids(db'[T]) \ Ids(db[T]) = {e.record_id}
                                 /\ Ids(db[T]) \subseteq Ids(db'[T])
       /\ e.action = "DELETE" => Ids(db[T]) \ Ids(db'[T]) = {e.record_id}
                                 /\ Ids(db'[T]) \subseteq Ids(db[T])
       /\ e.action = "UPDATE" => e.record_id \in Ids(db[T])
                                 /\ Ids(db'[T]) = Ids(db[T])
       /\ \A U \in Tables \ {T} : db'[U] = db[U]

\* C1: every successful mutation appends exactly one audit entry whose table,
\* record id and action match the mutation, and the ledger always holds as many
\* entries as there were successful mutations.
C1_OneAuditEntryPerMutation ==
    /\ [](Len(db.audit_log) = nmut)
    /\ [][nmut' = nmut + 1 => OneMatchingEntry]_vars

C1_Witness ==
    /\ nmut = 3
    /\ last.op = "delete_contact" /\ last.status = "deleted"
    /\ db.audit_log[3].action = "DELETE"
    /\ db.audit_log[2].action = "UPDATE"

\* C3: the ledger is append-only: every step leaves the entries that exist in
\* place, with their values, and at most adds entries after them.
C3_LedgerAppendOnly ==
    [][/\ Len(db'.audit_log) >= Len(db.audit_log)
       /\ SubSeq(db'.audit_log, 1, Len(db.audit_log)) = db.audit_log]_vars

C3_Witness ==
    /\ Len(db.audit_log) = 3
    /\ db.audit_log[1].action = "INSERT"
    /\ db.audit_log[2].action = "UPDATE" /\ db.audit_log[2].table_name = "tasks"
    /\ db.audit_log[3].action = "UPDATE" /\ db.audit_log[3].table_name = "tasks"

\* C4: every deal has closed_at set if and only if its stage is won or lost.
C4_ClosedIffTerminal ==
    \A d \in db.deals : (d.closed_at # NULL) <=> (d.stage \in TerminalStages)

\* C5: once a deal's closed_at is set, no later operation changes its value.
C5_ClosedAtSetOnce ==
    [][\A d \in db.deals : \A e \in db'.deals :
          (e.id = d.id /\ d.closed_at # NULL) => e.closed_at = d.closed_at]_vars

\* C6: once a task's completed_at is set, no later operation changes its value.
C6_CompletedAtFinal ==
    [][\A k \in db.tasks : \A m \in db'.tasks :
          (m.id = k.id /\ k.completed_at # NULL) => m.completed_at = k.completed_at]_vars

\* The last ledger entry about record id of table T, if any.
LastEntryIndex(store, T, id) ==
    LET hits == {i \in 1..Len(store.audit_log) :
                    store.audit_log[i].table_name = T /\ store.audit_log[i].record_id = id}
    IN IF hits = {} THEN 0 ELSE CHOOSE i \in hits : \A j \in hits : j <= i

\* A store in which entity changes and ledger entries go together: a row exists
\* exactly when the last entry about it is not a DELETE, and it then carries the
\* values that entry recorded as new.
ChangesMatchLedger(store) ==
    /\ \A T \in Tables : \A r \in store[T] :
          LET i == LastEntryIndex(store, T, r.id)
          IN /\ i > 0
             /\ store.audit_log[i].action # "DELETE"
             /\ \A f \in DOMAIN store.audit_log[i].new_values :
                   r[f] = store.audit_log[i].new_values[f]
    /\ \A i \in 1..Len(store.audit_log) :
          LET e == store.audit_log[i]
          IN (LastEntryIndex(store, e.table_name, e.record_id) = i)
                => ((e.action # "DELETE") <=> (e.record_id \in Ids(store[e.table_name])))

\* C2: in every committed state of the store an entity change is there exactly
\* when its audit entry is; a handler that stops after its entity statement or
\* after its audit statement leaves neither.
C2_EntityAndAuditTogether == ChangesMatchLedger(db)

C2_Witness ==
    /\ last.status = "interrupted_at_audit_written"
    /\ last.op = "update_contact"
    /\ Len(db.audit_log) = 1
    /\ pc = "idle"

\* A step that is a call of restore_database.
RestoreCalled == rpc = "idle" /\ last'.op = "restore" /\ sec' = sec

\* C7: restore_database with a missing backup path returns the not-found error,
\* with an existing path and no confirmation returns confirmation_required, and
\* in both cases leaves the live store, the backups and the notes as they were.
C7_RestoreNeedsFileAndConfirm ==
    [][(/\ RestoreCalled
        /\ \/ FileAt(bdir, ext, last'.args.path) = Absent
           \/ ~last'.args.confirm)
       => /\ FileAt(bdir, ext, last'.args.path) = Absent
                => last'.ret = Ret(None, "Backup file not found", None)
          /\ FileAt(bdir, ext, last'.args.path) # Absent
                => last'.ret = Ret("confirmation_required", None, None)
          /\ rpc' = "idle"
          /\ UNCHANGED <<live, bdir, bnote, ext>>]_vars

C7_Witness ==
    /\ last.op = "restore"
    /\ last.ret.status = "confirmation_required"
    /\ last.args.path # ExtPath
    /\ bdir[last.args.path] = "v1"
    /\ live = "v2"
    /\ rpc = "idle"

\* A backup file with content c and the safety note beside it.
SafetyBackupOf(c) ==
    \E ts \in DOMAIN bdir : bdir[ts] = c /\ bnote[ts] = SafetyNoteText

\* C8: in a confirmed restore over an existing live store, a safety backup with
\* the store's pre-restore content and the safety note exists before the live
\* store's content changes, and still exists once it has been overwritten.
C8_SafetyBackupBeforeOverwrite ==
    /\ [][(rpc # "idle" /\ rctx.existed /\ live' # live) => SafetyBackupOf(live)]_vars
    /\ []((rpc = "verify" /\ rctx.existed) => SafetyBackupOf(rctx.pre))

C8_Witness ==
    /\ rpc = "verify"
    /\ rctx.existed
    /\ rctx.pre = "v1"
    /\ live = "v2"
    /\ SafetyBackupOf("v1")

\* C9: a restore that passed both guards ends with the result success or with
\* the result 'Restored database appears corrupt'.
C9_RestoreEndsInSuccessOrCorrupt ==
    [][(rpc # "idle" /\ rpc' = "idle")
       => \/ last'.ret.status = "success"
          \/ last'.ret.error = "Restored database appears corrupt"]_vars

\* The n newest of a set of timestamps.
Newest(S, n) == {t \in S : Cardinality({u \in S : u > t}) < n}

Present(dir) == {ts \in DOMAIN dir : dir[ts] # Absent}

Min(a, b) == IF a <= b THEN a ELSE b

\* C10: when no deletion fails, prune(N) leaves exactly the min(N, count) newest
\* backups, deletes every older backup and its note, leaves the notes of the
\* kept backups, and reports as removed the number of backups it deleted.
C10_PruneKeepsNewest ==
    [][(/\ last'.op = "prune"
        /\ last' # last \/ bdir' # bdir
        /\ last'.args.fail_db = {} /\ last'.args.fail_note = {})
       => LET N    == last'.args.keep
              had  == Present(bdir)
              kept == Newest(had, N)
          IN /\ Present(bdir') = kept
             /\ Cardinality(kept) = Min(N, Cardinality(had))
             /\ \A ts \in kept : bdir'[ts] = bdir[ts] /\ bnote'[ts] = bnote[ts]
             /\ \A ts \in had \ kept : bnote'[ts] = Absent
             /\ last'.ret.status = "success"
             /\ last'.ret.removed = Cardinality(had) - Cardinality(kept)]_vars

C10_Witness ==
    /\ last.op = "prune"
    /\ last.args.keep = 2 /\ last.args.fail_db = {} /\ last.args.fail_note = {}
    /\ last.ret.removed = 3
    /\ last.ret.removed_files = <<3, 2, 1>>
    /\ Present(bdir) = {4, 5}
    /\ bnote[4] = "user" /\ bnote[5] = Absent /\ bnote[1] = Absent

\* ------------------------------------------------ claims on single calls
\* The step is one invocation of one of the handlers in ops.
CallOf(ops) == nops' = nops + 1 /\ last'.op \in ops

\* The label the resolver matches fragments against.
Label(T, r) == IF T = "contacts" THEN r.name ELSE r.title

\* The rows of table T whose label contains ident, letters compared without case.
SubstringMatches(store, T, ident) ==
    {r \in store[T] : Like(Pattern(ident), Lower(Label(T, r)))}

\* The row a successful call wrote or created.
Written(T) == CHOOSE r \in db'[T] : r.id = last'.ret.id

PrimaryOps == {"update_contact", "update_deal", "complete_task"}
SoftOps    == {"add_deal", "log_interaction", "add_task"}

\* C11: when the identifier equals the id of an existing record, that record is
\* the one update_contact / update_deal / complete_task act on, and the one the
\* contact reference of add_deal / log_interaction / add_task is bound to,
\* whatever other records contain the identifier in their name or title.
C11_ExactIdWins ==
    [][/\ (/\ CallOf(PrimaryOps)
           /\ last'.args.ident \in Ids(db[TableOf(last'.op)])
           /\ last'.ret.id # NULL)
          => last'.ret.id = last'.args.ident
       /\ (/\ CallOf(SoftOps)
           /\ last'.args.contact \in Ids(db.contacts))
          => Written(TableOf(last'.op)).contact_id = last'.args.contact]_vars

\* The matching row that was updated later than every other matching row.
Latest(M) == {r \in M : \A q \in M \ {r} : q.updated_at[1] < r.updated_at[1]}

\* C12: when no id equals the identifier and several contacts (deals) contain it
\* in their name (title), the call is bound to the one with the latest
\* updated_at.
C12_LatestSubstringMatch ==
    [][/\ (/\ CallOf({"update_contact", "update_deal"})
           /\ last'.args.ident \notin Ids(db[TableOf(last'.op)])
           /\ last'.ret.id # NULL
           /\ Latest(SubstringMatches(db, TableOf(last'.op), last'.args.ident)) # {})
          => last'.ret.id \in
                Ids(Latest(SubstringMatches(db, TableOf(last'.op), last'.args.ident)))
       /\ (/\ CallOf(SoftOps)
           /\ last'.args.contact # NULL
           /\ last'.args.contact \notin Ids(db.contacts)
           /\ Latest(SubstringMatches(db, "contacts", last'.args.contact)) # {})
          => Written(TableOf(last'.op)).contact_id \in
                Ids(Latest(SubstringMatches(db, "contacts", last'.args.contact)))]_vars

\* C13: update_contact, update_deal, delete_contact and complete_task given an
\* identifier that is no record's id and in no record's name or title report
\* not-found, and leave every table and the ledger as they were.
C13_NotFoundHasNoEffect ==
    [][(/\ CallOf(PrimaryOps \cup {"delete_contact"})
        /\ last'.args.ident \notin Ids(db[TableOf(last'.op)])
        /\ SubstringMatches(db, TableOf(last'.op), last'.args.ident) = {})
       => /\ last'.ret.status = "not_found"
          /\ last'.ret.id = NULL
          /\ db' = db
          /\ work' = work]_vars

C13_Witness ==
    /\ last.op = "complete_task"
    /\ last.args.ident = <<"z">>
    /\ last.ret.status = "not_found"
    /\ Cardinality(db.tasks) = 2
    /\ nops = 1

\* C14: update_contact and update_deal on an identifier that resolves, with no
\* field supplied, report 'No updates provided' and leave the record (with its
\* updated_at and closed_at) and the ledger as they were.
C14_EmptyChangeSetRejected ==
    [][(/\ CallOf({"update_contact", "update_deal"})
        /\ \A f \in DOMAIN last'.args.changes : last'.args.changes[f] = NULL
        /\ \/ last'.args.ident \in Ids(db[TableOf(last'.op)])
           \/ SubstringMatches(db, TableOf(last'.op), last'.args.ident) # {})
       => /\ last'.ret.status = "no_updates"
          /\ db' = db
          /\ work' = work]_vars

C14_Witness ==
    /\ last.op = "update_deal"
    /\ last.args.ident = <<"2">>
    /\ \A f \in DOMAIN last.args.changes : last.args.changes[f] = NULL
    /\ last.ret.status = "no_updates"
    /\ \E d \in db.deals : d.id = <<"2">> /\ d.closed_at # NULL
    /\ nops = 1

\* C15: add_deal, log_interaction and add_task given a contact reference that
\* matches no contact succeed, store the new record with contact_id null, and
\* add exactly one INSERT entry for it to the ledger.
C15_SoftReferenceMiss ==
    [][(/\ CallOf(SoftOps)
        /\ last'.args.contact # NULL
        /\ last'.args.contact \notin Ids(db.contacts)
        /\ SubstringMatches(db, "contacts", last'.args.contact) = {})
       => LET T == TableOf(last'.op)
          IN /\ last'.ret.status \in {"created", "logged"}
             /\ Ids(db'[T]) \ Ids(db[T]) = {last'.ret.id}
             /\ Written(T).contact_id = NULL
             /\ Len(db'.audit_log) = Len(db.audit_log) + 1
             /\ db'.audit_log[Len(db'.audit_log)].action = "INSERT"
             /\ db'.audit_log[Len(db'.audit_log)].table_name = T
             /\ db'.audit_log[Len(db'.audit_log)].record_id = last'.ret.id]_vars

C15_Witness ==
    /\ last.op = "log_interaction"
    /\ last.args.contact = <<"z">>
    /\ last.ret.status = "logged"
    /\ Cardinality(db.contacts) = 2
    /\ \E i \in db.interactions : i.id = last.ret.id /\ i.contact_id = NULL
    /\ db.audit_log[Len(db.audit_log)].table_name = "interactions"

\* C16: an update_deal that supplies no stage, or a stage other than won and
\* lost, leaves closed_at of every deal as it was, null or not.
C16_ClosedAtKeptWithoutTerminalStage ==
    [][(/\ CallOf({"update_deal"})
        /\ last'.args.changes.stage \notin TerminalStages)
       => \A d \in db.deals : \A e \in db'.deals :
             e.id = d.id => e.closed_at = d.closed_at]_vars

C16_Witness ==
    /\ last.op = "update_deal"
    /\ last.ret.status = "updated"
    /\ last.args.changes.stage = Qualified
    /\ \E d \in db.deals :
          d.id = last.ret.id /\ d.stage = Qualified /\ d.closed_at # NULL

\* ------------------------------------------------------ claims on parse_date
\* C17: when parse_date falls through every pattern and every date format, it
\* returns the text it was given, character for character.
C17_UnparsedReturnedVerbatim ==
    (last.op = "parse_date" /\ last.ret.kind = "text")
       => last.ret.text = last.args.s

\* C18: for each weekday name w and each reference day, 'w' and 'next w' give
\* midnight of the one day that is 1 to 7 days after the reference day and has
\* weekday w.
C18_WeekdayStrictlyAfter ==
    \A i \in 1..Len(days) :
       (last.op = "parse_date" /\ last.args.s \in {days[i], NextExpr(days[i])})
          => /\ last.ret.kind = "date"
             /\ last.ret.tod = 0
             /\ last.ret.day - last.args.T.day \in 1..7
             /\ (last.ret.day + 6) % 7 = i - 1

C18_Witness ==
    /\ last.op = "parse_date"
    /\ last.args.s = <<"f", "r", "i", "d", "a", "y">>
    /\ last.args.T = [day |-> FirstRefDay + 4, tod |-> 1]
    /\ last.ret = Resolved([day |-> FirstRefDay + 11, tod |-> 0])

\* C19: 'today' gives midnight of the reference day whatever the time of day;
\* 'in N days', 'in N weeks' and 'in N months' give that midnight plus N, 7N and
\* 30N days, for every N >= 0.
C19_RelativeOffsets ==
    last.op = "parse_date" =>
       LET midnight == [day |-> last.args.T.day, tod |-> 0]
       IN /\ last.args.s = <<"t", "o", "d", "a", "y">> => last.ret = Resolved(midnight)
          /\ \A ds \in NInputs, p \in BOOLEAN :
                /\ last.args.s = InExpr(ds, <<"d", "a", "y">>, p)
                      => last.ret = Resolved([midnight EXCEPT !.day = @ + ParseInt(ds)])
                /\ last.args.s = InExpr(ds, <<"w", "e", "e", "k">>, p)
                      => last.ret = Resolved([midnight EXCEPT !.day = @ + 7 * ParseInt(ds)])
                /\ last.args.s = InExpr(ds, <<"m", "o", "n", "t", "h">>, p)
                      => last.ret = Resolved([midnight EXCEPT !.day = @ + 30 * ParseInt(ds)])

\* -------------------------------------------------------- claims on pipeline
RECURSIVE SumOfValues(_)
SumOfValues(S) ==
    IF S = {} THEN 0
    ELSE LET d == CHOOSE x \in S : TRUE
         IN (IF d.value = NULL THEN 0 ELSE d.value[1]) + SumOfValues(S \ {d})

RECURSIVE WeightedSum(_)
WeightedSum(S) ==
    IF S = {} THEN 0
    ELSE LET d == CHOOSE x \in S : TRUE
             v == IF d.value = NULL THEN 0 ELSE d.value[1]
             p == IF d.probability = NULL THEN 50 ELSE d.probability[1]
         IN (v * p) \div 100 + WeightedSum(S \ {d})

\* C20: the pipeline summary counts and totals exactly the deals whose stage is
\* neither won nor lost, and its weighted value is the sum over those deals of
\* value * (probability, or 50 when probability is null) / 100.
C20_PipelineWeightsOpenDeals ==
    last.op = "pipeline" =>
       LET open == {d \in db.deals : d.stage \notin TerminalStages}
       IN /\ last.ret.total_deals = Cardinality(open)
          /\ last.ret.total_value = SumOfValues(open)
          /\ last.ret.weighted_value = WeightedSum(open)
          /\ \A i \in 1..Len(last.ret.stages) :
                /\ last.ret.stages[i].stage \notin TerminalStages
                /\ last.ret.stages[i].count =
                      Cardinality({d \in open : d.stage = last.ret.stages[i].stage})

C20_Witness ==
    /\ last.op = "pipeline"
    /\ Cardinality(db.deals) = 2
    /\ \E d \in db.deals : d.stage = Lead /\ d.value = <<1000>> /\ d.probability = NULL
    /\ \E d \in db.deals : d.stage = Qualified /\ d.value = <<2000>> /\ d.probability = <<80>>
    /\ last.ret.total_deals = 2
    /\ last.ret.total_value = 3000
    /\ last.ret.weighted_value = 2100

\* ------------------------------------------- claims on delete, prune, backup
\* C29: delete_contact given an identifier that is no contact's id reports
\* not-found and deletes nothing, also when contacts carry it in their name; a
\* successful delete removes the one contact with that id and no other row.
C29_DeleteByExactIdOnly ==
    [][CallOf({"delete_contact"})
       => /\ last'.args.ident \notin Ids(db.contacts)
                => (last'.ret.status = "not_found" /\ db' = db)
          /\ last'.args.ident \in Ids(db.contacts)
                => /\ last'.ret.status = "deleted"
                   /\ last'.ret.id = last'.args.ident
                   /\ db'.contacts = {r \in db.contacts : r.id # last'.args.ident}
                   /\ Cardinality(db'.contacts) = Cardinality(db.contacts) - 1
                   /\ \A T \in Tables \ {"contacts"} : db'[T] = db[T]]_vars

C29_Witness ==
    /\ last.op = "delete_contact"
    /\ last.args.ident = <<"a">>
    /\ last.ret.status = "not_found"
    /\ \E r \in db.contacts : r.name = <<"a">>
    /\ Cardinality(db.contacts) = 2

\* The step is a call of prune that had something to do.
PruneCalled == last'.op = "prune" /\ (last' # last \/ bdir' # bdir \/ bnote' # bnote)

\* The backups a prune with the given keep is to delete.
BeyondKeep(dir, keep) == Present(dir) \ Newest(Present(dir), keep)

InSeq(x, seq) == \E i \in 1..Len(seq) : seq[i] = x

\* C23: when the deletion of one backup file beyond the keep count fails, prune
\* still deletes every other backup beyond the keep count, returns success, and
\* neither lists nor counts the backup it could not delete.
C23_PruneSurvivesOneFailure ==
    [][(/\ PruneCalled
        /\ last'.args.fail_note = {}
        /\ \E f \in BeyondKeep(bdir, last'.args.keep) : last'.args.fail_db = {f})
       => LET f      == CHOOSE x \in last'.args.fail_db : TRUE
              others == BeyondKeep(bdir, last'.args.keep) \ {f}
          IN /\ last'.ret.status = "success"
             /\ bdir'[f] = bdir[f]
             /\ \A ts \in others : bdir'[ts] = Absent /\ InSeq(ts, last'.ret.removed_files)
             /\ ~InSeq(f, last'.ret.removed_files)
             /\ last'.ret.removed = Cardinality(others)
             /\ Len(last'.ret.removed_files) = Cardinality(others)]_vars

C23_Witness ==
    /\ last.op = "prune"
    /\ last.args.keep = 1 /\ last.args.fail_db = {3} /\ last.args.fail_note = {}
    /\ last.ret.status = "success"
    /\ last.ret.removed_files = <<4, 2, 1>>
    /\ Present(bdir) = {3, 5}

\* C28: after prune, removed_files lists exactly the backups whose .db file this
\* prune deleted.
C28_RemovedFilesAreTheDeletedOnes ==
    [][(PruneCalled /\ Cardinality(Present(bdir)) > last'.args.keep)
       => {ts \in DOMAIN bdir : InSeq(ts, last'.ret.removed_files)}
             = Present(bdir) \ Present(bdir')]_vars

\* The step is a call of backup_database that returned success: the explicit
\* backup command, or the safety backup inside restore.
BackupSucceeded ==
    \/ /\ rpc = "idle" /\ rpc' = "idle" /\ sec' = sec /\ live' = live
       /\ last'.op = "backup" /\ last'.ret.status = "success"
       /\ (last' # last \/ bdir' # bdir \/ bnote' # bnote)
    \/ rpc = "safety" /\ rpc' = "copy"

\* C27: every successful backup_database creates a backup file that did not
\* exist and leaves every existing backup file and note as it was; the safety
\* backup inside restore leaves the backup being restored as it was.
C27_BackupNeverOverwrites ==
    [][/\ BackupSucceeded
          => \E ts \in DOMAIN bdir :
                /\ bdir[ts] = Absent /\ bdir'[ts] # Absent
                /\ \A u \in DOMAIN bdir \ {ts} : bdir'[u] = bdir[u] /\ bnote'[u] = bnote[u]
       /\ (rpc = "safety" /\ rctx.path # ExtPath)
          => bdir'[rctx.path] = bdir[rctx.path] /\ bnote'[rctx.path] = bnote[rctx.path]]_vars

\* ----------------------------------------------------------------- digest
\* crm-digest.py reads the store the handlers of crm.py wrote.  Timestamps are
\* the strings datetime.isoformat() gives and SQLite compares them as text.
MaxDigestOps  == 2
MaxDigestDays == 1

\* hour=23, minute=59, second=59 as a second of the day
EndOfDay == 86399

\* datetime.isoformat(): 'YYYY-MM-DDTHH:MM:SS', followed by '.ffffff' only
\* when the microsecond is not zero.  The fields have fixed widths, so the
\* text is given as the sequence of its fields.
IsoFormat(dt) == IF dt.us = 0 THEN <<dt.day, dt.tod>> ELSE <<dt.day, dt.tod, dt.us>>

\* Text comparison as SQLite's BINARY collation makes it: the first differing
\* position decides, and a proper prefix sorts first.
RECURSIVE TextLess(_, _)
TextLess(a, b) ==
    IF b = <<>> THEN FALSE
    ELSE IF a = <<>> THEN TRUE
    ELSE IF Head(a) # Head(b) THEN Head(a) < Head(b)
    ELSE TextLess(Tail(a), Tail(b))

TextLeq(a, b) == a = b \/ TextLess(a, b)

\* parse_date(x) if x else None, as the column stores it
DateColumn(x, T) ==
    IF x = NULL THEN NULL
    ELSE LET r == parse_date(x, T)
         IN IF r.kind = "date" THEN IsoFormat([day |-> r.day, tod |-> r.tod, us |-> 0])
            ELSE r.text

WithColumn(r, f, v) == [g \in DOMAIN r \cup {f} |-> IF g = f THEN v ELSE r[g]]

\* add_task with its due_at column: due = parse_date(args.due) if args.due else None
add_task_due(store, args, T) ==
    LET txn == add_task(store, NULL, args, T)
        due == DateColumn(args.due, T)
    IN [txn EXCEPT !.written.tasks =
           {IF r.id = txn.id THEN WithColumn(r, "due_at", due) ELSE r : r \in @}]

\* add_deal with its expected_close column
add_deal_close(store, args, T) ==
    LET txn   == add_deal(store, NULL, args, T)
        close == DateColumn(args.expected_close, T)
    IN [txn EXCEPT !.written.deals =
           {IF r.id = txn.id THEN WithColumn(r, "expected_close", close) ELSE r : r \in @}]

\* The ledger's created_at column takes the instant of the INSERT.
CommittedAt(txn, T) ==
    LET store == Committed(txn)
        n     == Len(store.audit_log)
    IN [store EXCEPT !.audit_log[n] = WithColumn(@, "created_at", IsoFormat(T))]

\* A snapshot column that is not JSON, and one that is JSON but not an object.
Malformed == [json |-> "malformed"]
NonObject == [json |-> "array"]

\* Ledger rows written by something other than the handlers.
ForeignEntries(T) ==
    {[table_name |-> "deals", record_id |-> IdOf(1), action |-> "UPDATE",
      old_values |-> p[1], new_values |-> p[2], created_at |-> IsoFormat(T)] :
        p \in {q \in {NULL, Malformed, NonObject}
                       \X {NULL, Malformed, NonObject, [stage |-> Won]} :
                   q[1] = NULL \/ q[2] = [stage |-> Won]}}

\* json.loads(x) if x else {}  -- the empty dict is the empty function
Loads(x) == IF x = NULL THEN <<>> ELSE x

\* dict.get(k)
Get(d, k) == IF k \in DOMAIN d THEN d[k] ELSE NULL

\* The body of the try block raises: json.loads on text that is not JSON,
\* 'stage' in new / old.get / new.get on a value without that operation.
\* (A JSON array as new has no 'stage' member, so no .get is reached.)
SnapshotRaises(e) ==
    \/ e.old_values = Malformed
    \/ e.new_values = Malformed
    \/ "stage" \in DOMAIN Loads(e.new_values) /\ e.old_values = NonObject

\* if 'stage' in new and old.get('stage') != new.get('stage')
StageChange(e) ==
    /\ ~SnapshotRaises(e)
    /\ "stage" \in DOMAIN Loads(e.new_values)
    /\ Get(Loads(e.old_values), "stage") # Loads(e.new_values).stage

\* SELECT ... FROM audit_log WHERE table_name = 'deals' AND action = 'UPDATE'
\* AND created_at >= ?, then the loop over the rows
deal_stage_changes(store, yesterday) ==
    LET rows == SelectSeq(store.audit_log,
                    LAMBDA e : /\ e.table_name = "deals" /\ e.action = "UPDATE"
                               /\ TextLeq(yesterday, e.created_at))
        kept == SelectSeq(rows, StageChange)
    IN [i \in 1..Len(kept) |->
           [from |-> Get(Loads(kept[i].old_values), "stage"),
            to   |-> Loads(kept[i].new_values).stage]]

\* WHERE t.completed_at IS NULL AND t.due_at >= ? AND t.due_at <= ?
TasksDueToday(store, today_start, today_end) ==
    {r \in store.tasks : /\ r.completed_at = NULL
                         /\ r.due_at # NULL
                         /\ TextLeq(today_start, r.due_at)
                         /\ TextLeq(r.due_at, today_end)}

\* WHERE t.completed_at IS NULL AND t.due_at < ?
OverdueTasks(store, today_start) ==
    {r \in store.tasks : /\ r.completed_at = NULL
                         /\ r.due_at # NULL
                         /\ TextLess(r.due_at, today_start)}

\* WHERE d.stage NOT IN ('won', 'lost') AND d.expected_close <= ?
ClosingSoon(store, week_ahead) ==
    {r \in store.deals : /\ r.stage \notin TerminalStages
                         /\ r.expected_close # NULL
                         /\ TextLeq(r.expected_close, week_ahead)}

\* ORDER BY <column> ASC LIMIT n: every order of the rows that is ascending in
\* the column (rows with equal values come in any order), cut after n rows.
OrderByLimit(rows, column, n) ==
    {SubSeq(s, 1, Min(n, Len(s))) :
        s \in {q \in [1..Cardinality(rows) -> rows] :
                   /\ \A i, j \in DOMAIN q : i # j => q[i] # q[j]
                   /\ \A i, j \in DOMAIN q : i < j => TextLeq(q[i][column], q[j][column])}}

\* generate_digest(lookback_days, lookahead_days) at instant T: the parts of
\* the digest read below.  (All tasks have the default priority, so ORDER BY
\* t.priority DESC, t.due_at ASC orders by due_at.)
generate_digest(store, T, lookback_days, lookahead_days) ==
    LET yesterday   == IsoFormat([T EXCEPT !.day = @ - lookback_days])
        week_ahead  == IsoFormat([T EXCEPT !.day = @ + lookahead_days])
        today_start == IsoFormat([T EXCEPT !.tod = 0])
        today_end   == IsoFormat([T EXCEPT !.tod = EndOfDay])
    IN {[deal_stage_changes |-> deal_stage_changes(store, yesterday),
         tasks_due_today    |-> due,
         overdue_tasks      |-> over,
         deals_closing_soon |-> soon] :
           due  \in OrderByLimit(TasksDueToday(store, today_start, today_end),
                                 "due_at", Cardinality(store.tasks)),
           over \in OrderByLimit(OverdueTasks(store, today_start), "due_at", 10),
           soon \in OrderByLimit(ClosingSoon(store, week_ahead),
                                 "expected_close", 5)}

\* The instants the clock shows: noon, on the second or half a second later.
DigestInstants ==
    [day : FirstRefDay..(FirstRefDay + MaxDigestDays), tod : {43200}, us : {0, 500000}]

Later(a, b) == TextLess(<<a.day, a.tod, a.us>>, <<b.day, b.tod, b.us>>)

Today     == <<"t", "o", "d", "a", "y">>
Tomorrow  == <<"t", "o", "m", "o", "r", "r", "o", "w">>
Yesterday == <<"y", "e", "s", "t", "e", "r", "d", "a", "y">>
NextMonth == <<"n", "e", "x", "t", " ", "m", "o", "n", "t", "h">>

DueInputs   == {NULL, Today, Yesterday}
CloseInputs == {NULL, Yesterday, Tomorrow, NextMonth}

DigestStep(store) ==
    /\ nops < MaxDigestOps
    /\ db'   = store
    /\ nops' = nops + 1
    /\ last' = Call("none", NULL, NULL)
    /\ UNCHANGED <<now, nmut, work, pc>>
    /\ UNCHANGED fsVars

\* crm.py add-task --due <expression>
DigestAddTask ==
    \E due \in DueInputs :
        /\ DigestStep(CommittedAt(add_task_due(db, [title |-> <<"a">>, due |-> due], now), now))
        /\ UNCHANGED pending

\* crm.py complete-task <id>
DigestCompleteTask ==
    \E r \in {q \in db.tasks : q.completed_at = NULL} :
        /\ DigestStep(CommittedAt(complete_task(db, r, now), now))
        /\ UNCHANGED pending

\* crm.py add-deal --expected-close <expression>
DigestAddDeal ==
    \E close \in CloseInputs, stage \in {NULL} :
        /\ Cardinality(db.deals) < MaxDeals
        /\ DigestStep(CommittedAt(
               add_deal_close(db, [title |-> <<"a">>, value |-> NULL, stage |-> stage,
                                   probability |-> NULL, notes |-> NULL,
                                   expected_close |-> close], now), now))
        /\ UNCHANGED pending

\* crm.py update-deal <id> [--stage <stage>] [--notes <text>]; pending keeps
\* the calls made: when, the stage the deal had, the stage supplied.
DigestUpdateDeal ==
    \E r \in db.deals, stage \in {NULL, Qualified, Won} :
        /\ DigestStep(CommittedAt(
               update_deal(db, r, [title |-> NULL, value |-> NULL, stage |-> stage,
                                   probability |-> NULL,
                                   notes |-> IF stage = NULL THEN <<"n">> ELSE NULL], now), now))
        /\ pending' = Append(pending, [at |-> now, from |-> r.stage, supplied |-> stage])

\* A row put into audit_log by another writer.
DigestForeignEntry ==
    \E e \in ForeignEntries(now) :
        /\ \A i \in DOMAIN db.audit_log : db.audit_log[i].old_values \notin {Malformed, NonObject}
                                          /\ db.audit_log[i].new_values \notin {Malformed, NonObject}
        /\ DigestStep([db EXCEPT !.audit_log = Append(@, e)])
        /\ UNCHANGED pending

DigestTick ==
    /\ \E t \in DigestInstants : Later(now, t) /\ now' = t
    /\ last' = Call("none", NULL, NULL)
    /\ UNCHANGED <<db, nops, nmut, work, pending, pc>>
    /\ UNCHANGED fsVars

\* crm-digest.py [--lookback 1] [--lookahead 7]
Digest ==
    /\ \E lookback_days \in {1}, lookahead_days \in {7} :
          \E d \in generate_digest(db, now, lookback_days, lookahead_days) :
             last' = Call("digest", [T |-> now, lookback_days |-> lookback_days,
                                     lookahead_days |-> lookahead_days], d)
    /\ UNCHANGED <<db, now, nops, nmut, work, pending, pc>>
    /\ UNCHANGED fsVars

InitDigest ==
    /\ db   = EmptyStore
    /\ now  \in {t \in DigestInstants : t.day = FirstRefDay}
    /\ last = Call("none", NULL, NULL)
    /\ nops = 0
    /\ nmut = 0
    /\ work = EmptyStore
    /\ pending = <<>>
    /\ pc   = "idle"
    /\ live = "v1"
    /\ bdir = <<>>
    /\ bnote = <<>>
    /\ ext  = Absent
    /\ sec  = 1
    /\ rpc  = "idle"
    /\ rctx = NULL

NextDigest ==
    \/ DigestAddTask
    \/ DigestCompleteTask
    \/ DigestAddDeal
    \/ DigestUpdateDeal
    \/ DigestForeignEntry
    \/ DigestTick
    \/ Digest

SpecDigest == InitDigest /\ [][NextDigest]_vars

\* ------------------------------------------------- claims on the digest
\* The calendar day a stored timestamp names.
DayOf(text) == text[1]

\* C24: in a digest, every pending task whose due_at lies within the current
\* calendar day (midnight included) is in tasks_due_today, every task in
\* overdue_tasks is pending and due before the current day's midnight, and no
\* task is in both lists.
C24_DueTodayAndOverdue ==
    last.op = "digest" =>
        LET T == last.args.T
            d == last.ret
        IN /\ \A r \in db.tasks :
                 (r.completed_at = NULL /\ r.due_at # NULL /\ DayOf(r.due_at) = T.day)
                     => InSeq(r, d.tasks_due_today)
           /\ \A i \in DOMAIN d.overdue_tasks :
                 /\ d.overdue_tasks[i].completed_at = NULL
                 /\ DayOf(d.overdue_tasks[i].due_at) < T.day
           /\ \A r \in db.tasks : ~(InSeq(r, d.tasks_due_today) /\ InSeq(r, d.overdue_tasks))

\* C25: every deal in deals_closing_soon has an expected_close between the
\* instant the digest is generated and that instant plus lookahead_days; the
\* list has at most 5 entries and is in ascending expected_close order.
C25_ClosingSoonInsideLookahead ==
    last.op = "digest" =>
        LET T    == last.args.T
            soon == last.ret.deals_closing_soon
        IN /\ \A i \in DOMAIN soon :
                 /\ TextLeq(IsoFormat(T), soon[i].expected_close)
                 /\ TextLeq(soon[i].expected_close,
                            IsoFormat([T EXCEPT !.day = @ + last.args.lookahead_days]))
           /\ Len(soon) <= 5
           /\ \A i, j \in DOMAIN soon :
                 i < j => TextLeq(soon[i].expected_close, soon[j].expected_close)

\* C26: deal_stage_changes holds one entry (from = previous stage, to = new
\* stage) for each update_deal inside the lookback window that supplied a stage
\* different from the deal's stage at that time, and nothing else: no entry for
\* an update without a stage or with the same stage, none for a ledger entry
\* whose snapshots are missing or malformed.
C26_StageChangesFromLedger ==
    last.op = "digest" =>
        LET T     == last.args.T
            since == [T EXCEPT !.day = @ - last.args.lookback_days]
            calls == SelectSeq(pending,
                        LAMBDA c : /\ ~Later(c.at, since)
                                   /\ c.supplied # NULL
                                   /\ c.supplied # c.from)
        IN last.ret.deal_stage_changes =
              [i \in 1..Len(calls) |-> [from |-> calls[i].from, to |-> calls[i].supplied]]

\* ----------------------------------------------- concurrent invocations
\* Several processes run add_contact at once (crm-webhook.py starts one
\* crm.py process per request), each on its own connection, and a backup may be
\* taken at any moment.  db is the committed store, work[c] what connection c
\* sees inside its transaction, pending the connection holding SQLite's write
\* lock, rctx[c] the locals of caller c, bdir the backups taken.
MaxCallers     == 2
MaxConcBackups == 1

Callers  == 1..MaxCallers
NoWriter == 0

CanWriteUnlocked(holder, c) == TRUE

\* The INSERT opens the transaction and takes the write lock, which SQLite
\* grants to one connection at a time until its commit.
CanWrite(holder, c) == holder = NoWriter

BackupOfWorkingPages(committed, working) == working

\* source.backup(dest): the copy is read through the backup's own connection,
\* which sees nothing a writer has not committed.
source_backup(committed, working) == Uncommitted(committed, working)

\* get_db() in a new process, with the arguments of its add-contact command
ConcConnect(c) ==
    /\ pc[c] = "idle"
    /\ \E args \in ContactArgs :
          rctx' = [rctx EXCEPT ![c] = [args |-> args, id |-> NULL, began |-> pending]]
    /\ pc' = [pc EXCEPT ![c] = "connected"]
    /\ UNCHANGED <<db, now, last, nops, nmut, work, pending>>
    /\ UNCHANGED <<live, bdir, bnote, ext, sec, rpc>>

\* add_contact, lines 112-115: INSERT INTO contacts
ConcInsert(c) ==
    /\ pc[c] = "connected"
    /\ CanWrite(pending, c)
    /\ pending' = c
    /\ work' = [work EXCEPT ![c] = add_contact(db, rctx[c].args, now).written]
    /\ pc' = [pc EXCEPT ![c] = "inserted"]
    /\ UNCHANGED <<db, now, last, nops, nmut, rctx>>
    /\ UNCHANGED <<live, bdir, bnote, ext, sec, rpc>>

\* The INSERT waits for the lock until the connection's timeout and raises
\* sqlite3.OperationalError: the process ends with a traceback, nothing written.
ConcBusy(c) ==
    /\ pc[c] = "connected"
    /\ ~CanWrite(pending, c)
    /\ pc' = [pc EXCEPT ![c] = "failed"]
    /\ last' = [last EXCEPT ![c] = Outcome("add_contact", "locked", NULL)]
    /\ UNCHANGED <<db, now, nops, nmut, work, pending, rctx>>
    /\ UNCHANGED <<live, bdir, bnote, ext, sec, rpc>>

\* add_contact, lines 117-119: cursor.lastrowid, SELECT id ... WHERE rowid = ?
ConcSelectId(c) ==
    /\ pc[c] = "inserted"
    /\ LET record_id == work[c].seq["contacts"]
       IN rctx' = [rctx EXCEPT ![c].id = IdOf(record_id)]
    /\ pc' = [pc EXCEPT ![c] = "selected"]
    /\ UNCHANGED <<db, now, last, nops, nmut, work, pending>>
    /\ UNCHANGED <<live, bdir, bnote, ext, sec, rpc>>

\* add_contact, lines 121-123: audit_log(conn, 'contacts', row['id'], 'INSERT', ...)
ConcAudit(c) ==
    /\ pc[c] = "selected"
    /\ work' = [work EXCEPT ![c] =
                   audit_log(@, "contacts", rctx[c].id, "INSERT", NULL,
                             [name |-> rctx[c].args.name, email |-> rctx[c].args.email])]
    /\ pc' = [pc EXCEPT ![c] = "audited"]
    /\ UNCHANGED <<db, now, last, nops, nmut, pending, rctx>>
    /\ UNCHANGED <<live, bdir, bnote, ext, sec, rpc>>

\* add_contact, lines 125-133: conn.commit(), print status created
ConcCommit(c) ==
    /\ pc[c] = "audited"
    /\ db' = work[c]
    /\ pending' = NoWriter
    /\ last' = [last EXCEPT ![c] = Outcome("add_contact", "created", rctx[c].id)]
    /\ pc' = [pc EXCEPT ![c] = "done"]
    /\ UNCHANGED <<now, nops, nmut, work, rctx>>
    /\ UNCHANGED <<live, bdir, bnote, ext, sec, rpc>>

\* crm-backup.py backup, at any moment; during records the writer whose
\* transaction was open when the copy was made.
ConcBackup ==
    /\ Len(bdir) < MaxConcBackups
    /\ bdir' = Append(bdir,
          [content |-> source_backup(db, IF pending = NoWriter THEN db ELSE work[pending]),
           during  |-> pending])
    /\ UNCHANGED <<db, now, last, nops, nmut, work, pending, pc, rctx>>
    /\ UNCHANGED <<live, bnote, ext, sec, rpc>>

InitConc ==
    /\ db   = EmptyStore
    /\ now  = 1
    /\ last = [c \in Callers |-> Outcome("none", "none", NULL)]
    /\ nops = 0
    /\ nmut = 0
    /\ work = [c \in Callers |-> EmptyStore]
    /\ pending = NoWriter
    /\ pc   = [c \in Callers |-> "idle"]
    /\ live = "v1"
    /\ bdir = <<>>
    /\ bnote = <<>>
    /\ ext  = Absent
    /\ sec  = 1
    /\ rpc  = "idle"
    /\ rctx = [c \in Callers |-> [args |-> NULL, id |-> NULL, began |-> NoWriter]]

NextConc ==
    \/ \E c \in Callers :
          \/ ConcConnect(c)
          \/ ConcInsert(c)
          \/ ConcBusy(c)
          \/ ConcSelectId(c)
          \/ ConcAudit(c)
          \/ ConcCommit(c)
    \/ ConcBackup

SpecConc == InitConc /\ [][NextConc]_vars

\* ------------------------------------------------ claims on concurrency
\* The ledger entries that record the INSERT of contact id.
InsertEntries(store, id) ==
    {i \in DOMAIN store.audit_log :
        /\ store.audit_log[i].table_name = "contacts"
        /\ store.audit_log[i].action = "INSERT"
        /\ store.audit_log[i].record_id = id}

Created == {c \in Callers : last[c].status = "created"}

\* C21: under every interleaving of concurrent add_contact invocations, each
\* invocation that reports success has created its own contact, with an id no
\* other invocation reports, and the ledger holds exactly one INSERT entry per
\* contact, carrying that contact's id and values.
C21_ConcurrentAddContact ==
    /\ \A c \in Created :
          \E r \in db.contacts : r.id = last[c].id /\ r.name = rctx[c].args.name
    /\ \A c1, c2 \in Created : c1 # c2 => last[c1].id # last[c2].id
    /\ Cardinality(db.contacts) = Cardinality(Created)
    /\ \A r \in db.contacts :
          /\ Cardinality(InsertEntries(db, r.id)) = 1
          /\ \A i \in InsertEntries(db, r.id) : db.audit_log[i].new_values.name = r.name
    /\ Len(db.audit_log) = Cardinality(db.contacts)

\* Two invocations succeeded, the second started while the first held its
\* transaction open.
C21_Witness ==
    \E c \in Created :
        /\ rctx[c].began # NoWriter
        /\ rctx[c].began \in Created
        /\ Cardinality(db.contacts) = 2

\* C22: a backup taken while a mutation is in flight is the committed store of
\* that moment: it holds every transaction wholly or not at all, so no entity
\* change without its audit entry and no audit entry without its entity change.
C22_BackupIsPointInTime ==
    [][Len(bdir') = Len(bdir) + 1
          => LET b == bdir'[Len(bdir')]
             IN /\ b.content = db
                /\ ChangesMatchLedger(b.content)]_vars

\* A backup was taken while a writer had inserted its contact and not yet
\* committed, and does not hold that contact.
C22_Witness ==
    \E i \in DOMAIN bdir :
        /\ bdir[i].during # NoWriter
        /\ pc[bdir[i].during] \in {"inserted", "selected", "audited"}
        /\ work[bdir[i].during] # db
        /\ bdir[i].content = db

====
